---------------------------- MODULE Spec2Model ----------------------------
(***************************************************************************)
(* Model of package http/param (Parser.Parse and its helpers).             *)
(*                                                                         *)
(* Strings are sequences of one-character strings, so that splitting a     *)
(* tag, parsing a decimal text and prefixing a text are computed and not   *)
(* assumed.  Integers of Go are kept as sign + decimal digits, because the *)
(* widths that matter (up to 64 bit) exceed the integers of the checker.   *)
(* Memory is a heap of cells: cell 1 holds the destination struct, every   *)
(* reflect.New appends a cell.  A pointer value is the address of a cell.  *)
(***************************************************************************)
EXTENDS Integers, Sequences, FiniteSets, TLC

VARIABLES
    parser,     \* Parser{ParamTagResolver, PathParamFunc, FormParamFunc}
    req,        \* the *http.Request: method and the parameters it carries
    destTyp,    \* the type of the struct dest points to
    intSize,    \* strconv.IntSize of the build: bits of int and uint
    heap,       \* memory: heap[1] is the struct dest points to
    heap0,      \* memory as it was when Parse was called
    pc,         \* position of Parse: "start", "zeroing", "binding", "done";
                \* "panic" when it panicked instead of returning
    idx,        \* loop variable of the running loop of Parse
    paths,      \* fieldIndexPaths
    err,        \* the error Parse returned (<<>> is nil)
    log,        \* the calls made so far, in order
    valueReceiverResult, \* global written by valueReceiverUnmarshaler
    wrapKind,   \* the function that built the running http.HandlerFunc:
                \* "WrapHandler", "WrapHandlerResponse", "WrapHandlerInput",
                \* "WrapHandlerError"; "none" when no such handler runs
    hpc,        \* position of the handler: the function it calls next
                \* ("inputGetter", "handler", "responseMarshaler",
                \* "errorHandler"), "returned" when it is over
    input,      \* var input TInput, as inputGetter filled it
    response,   \* the response the inner handler returned
    herr,       \* the error that is handed to errorHandler
    invoked,    \* the calls the handler made so far, in order
    errorHandler, \* the ErrorHandlerFunc of the Wrapper
    headers,    \* the status codes w.WriteHeader was called with, in order
    spc,        \* position of Server.Run: "serving" (the first select),
                \* "shutdown" (about to call s.server.Shutdown), "waiting"
                \* (the second select), "returned"; "none" when no server runs
    stopCause,  \* the case of the first select that was taken
    shutdownTimeout, \* *s.shutdownTimeout, in seconds
    doBeforeShutdown, \* for each configured hook: "configured", "spawned"
                \* (its goroutine exists), "running" (it was called),
                \* "returned"
    bpc,        \* position of the goroutine of beforeShutdown: "none",
                \* "spawned", "waiting" (wg.Wait), "done"
    waitForShutdown, \* the number of values in the channel (capacity 1)
    timer,      \* time.After of the second select: "off", "running", "fired"
    runResult,  \* what Run returned
    operation,  \* opCtx.Operation.SelectionSet of the operation that
                \* RecursionLimit checks; <<>> when there is none
    maxRecursion, \* RecursionLimit.maxRecursion
    gqlErr,     \* what MutateOperationContext returned: "pending" before it
                \* ran, "nil", or the message of the error
    calledWriteHeader, \* ResponseWriter.calledWriteHeader
    statusCode, \* ResponseWriter.statusCode
    wrappedCalls, \* the status codes the wrapped http.ResponseWriter was
                \* given by WriteHeader, in order
    callers,    \* the calls of WriteHeader and TryWriteHeader on the one
                \* ResponseWriter: for each its method, its status code,
                \* its position and what TryWriteHeader returned in it
    warned,     \* the "WriteHeader multiple call" warnings logged
    peer        \* the locals of a second call of Parse that runs concurrently
                \* and is not the one taking steps now; NoCall if there is
                \* no second call

wrapVars == <<wrapKind, hpc, input, response, herr, invoked, errorHandler, headers>>

serverVars == <<spc, stopCause, shutdownTimeout, doBeforeShutdown, bpc, waitForShutdown,
                timer, runResult>>

checkVars == <<operation, maxRecursion, gqlErr>>

writerVars == <<calledWriteHeader, statusCode, wrappedCalls, callers, warned>>

vars == <<parser, req, destTyp, intSize, heap, heap0, pc, idx, paths, err, log,
          valueReceiverResult, peer, wrapVars, serverVars, checkVars, writerVars>>

\* What a handler built by a Wrap function leaves alone besides its own
\* variables and those of Parse.
outsideWrap == <<serverVars, checkVars, writerVars>>

\* What a step of Parse leaves alone besides the variables of Parse.
outsideParse == <<wrapVars, serverVars, checkVars, writerVars>>

\* No operation is checked by RecursionLimit.
NoCheck ==
    /\ operation = <<>>
    /\ maxRecursion = 0
    /\ gqlErr = [msg |-> "nil", typ |-> "", field |-> ""]

\* No ResponseWriter is in use.
NoWriter ==
    /\ calledWriteHeader = 0
    /\ statusCode = 200
    /\ wrappedCalls = <<>>
    /\ callers = <<>>
    /\ warned = <<>>

\* No Server runs.
NoServer ==
    /\ spc = "none"
    /\ stopCause = "none"
    /\ shutdownTimeout = 0
    /\ doBeforeShutdown = <<>>
    /\ bpc = "none"
    /\ waitForShutdown = 0
    /\ timer = "off"
    /\ runResult = "none"

\* No handler built by a Wrap function runs.
NoWrappedHandler ==
    /\ wrapKind = "none"
    /\ hpc = "returned"
    /\ input = ""
    /\ response = ""
    /\ herr = <<>>
    /\ invoked = <<>>
    /\ errorHandler = "none"
    /\ headers = <<>>

\* Nothing but Parse runs.
OnlyParse == NoWrappedHandler /\ NoServer /\ NoCheck /\ NoWriter

NoCall == [id |-> 0]

----------------------------------------------------------------------------
(* Bounds *)

\* The most '='-separated parts a generated tag value has.
MaxTagParts == 3

\* The most values a request carries under the first parameter name.
MaxValues == 2

----------------------------------------------------------------------------
(* Strings *)

defaultTagName == "param"
queryTagValuePrefix == <<"q","u","e","r","y">>
pathTagValuePrefix == <<"p","a","t","h">>
formTagValuePrefix == <<"f","o","r","m">>

RECURSIVE Flatten(_)
Flatten(ss) == IF ss = <<>> THEN <<>> ELSE Head(ss) \o Flatten(Tail(ss))

\* strings.HasPrefix
HasPrefix(s, prefix) ==
    /\ Len(s) >= Len(prefix)
    /\ SubSeq(s, 1, Len(prefix)) = prefix

\* strings.Split(s, sep) for a one-character sep: the pieces between the
\* occurrences of sep; n occurrences give n+1 pieces.
RECURSIVE SplitFrom(_, _, _, _)
SplitFrom(s, sep, i, cur) ==
    IF i > Len(s) THEN <<cur>>
    ELSE IF s[i] = sep THEN <<cur>> \o SplitFrom(s, sep, i + 1, <<>>)
    ELSE SplitFrom(s, sep, i + 1, Append(cur, s[i]))

Split(s, sep) == SplitFrom(s, sep, 1, <<>>)

----------------------------------------------------------------------------
(* Types (reflect.Type) *)

\* kind: the reflect.Kind; name: Type.Name(); elem: the element type of a
\* pointer or slice (a sequence of length 0 or 1); fields: the fields of a
\* struct; tu: whether *T implements encoding.TextUnmarshaler.
Prim(k) == [kind |-> k, name |-> k, elem |-> <<>>, fields |-> <<>>, tu |-> FALSE]
PtrTo(t) == [kind |-> "ptr", name |-> "", elem |-> <<t>>, fields |-> <<>>, tu |-> FALSE]
SliceOf(t) == [kind |-> "slice", name |-> "", elem |-> <<t>>, fields |-> <<>>, tu |-> FALSE]
StructOf(n, fs) == [kind |-> "struct", name |-> n, elem |-> <<>>, fields |-> fs, tu |-> FALSE]
Named(n, t, isTU) == [t EXCEPT !.name = n, !.tu = isTU]

\* reflect.StructField: Name, IsExported(), Anonymous, Tag, Type.
\* A tag is the sequence of its key:"value" pairs.
Field(n, ex, anon, tg, t) ==
    [name |-> n, exported |-> ex, anonymous |-> anon, tag |-> tg, typ |-> t]

Tag(k, v) == <<[key |-> k, value |-> v]>>
NoTag == <<>>

SignedKinds == {"int", "int8", "int16", "int32", "int64"}
UnsignedKinds == {"uint", "uint8", "uint16", "uint32", "uint64"}

----------------------------------------------------------------------------
(* Values *)

\* One record shape for every value: s the text of a string, b a bool, neg
\* and mag the sign and the decimal digits of an integer (no leading zero,
\* <<>> is 0), p the address a pointer holds (0 is nil; for a slice 0 is the
\* nil slice and 1 an allocated one), e the fields of a struct or the
\* elements of a slice.
V0 == [s |-> <<>>, b |-> FALSE, neg |-> FALSE, mag |-> <<>>, p |-> 0, e |-> <<>>]
StrV(s) == [V0 EXCEPT !.s = s]
BoolV(b) == [V0 EXCEPT !.b = b]
IntV(neg, mag) == [V0 EXCEPT !.neg = neg, !.mag = mag]
PtrV(a) == [V0 EXCEPT !.p = a]
SliceV(elems) == [V0 EXCEPT !.p = 1, !.e = elems]
StructV(fs) == [V0 EXCEPT !.e = fs]

\* reflect.Zero(t)
RECURSIVE Zero(_)
Zero(t) ==
    IF t.kind = "struct"
    THEN StructV([i \in 1..Len(t.fields) |-> Zero(t.fields[i].typ)])
    ELSE V0

\* The value at index path ip inside value v (fields of nested structs).
RECURSIVE At(_, _)
At(v, ip) == IF ip = <<>> THEN v ELSE At(v.e[Head(ip)], Tail(ip))

\* v with the value at index path ip replaced by x.
RECURSIVE With(_, _, _)
With(v, ip, x) ==
    IF ip = <<>> THEN x
    ELSE [v EXCEPT !.e[Head(ip)] = With(v.e[Head(ip)], Tail(ip), x)]

\* A location (an addressable reflect.Value): cell a, index path ip in it.
Get(h, loc) == At(h[loc.a], loc.ip)
Set(h, loc, x) == [h EXCEPT ![loc.a] = With(h[loc.a], loc.ip, x)]

----------------------------------------------------------------------------
(* Tag resolver *)

\* reflect.StructTag.Get(key): the value of the first pair under key, "" if
\* there is none.
RECURSIVE TagGet(_, _)
TagGet(tg, key) ==
    IF tg = <<>> THEN <<>>
    ELSE IF Head(tg).key = key THEN Head(tg).value
    ELSE TagGet(Tail(tg), key)

TagNameResolver(tagName, fieldTag) ==
    LET tagValue == TagGet(fieldTag, tagName)
    IN  IF tagValue = <<>> THEN [name |-> <<>>, ok |-> FALSE]
        ELSE [name |-> tagValue, ok |-> TRUE]

\* Mutant: a tag value with more than one '=' is accepted.
resolveTagValueAtLeastTwo(tagValue, tagModifier) ==
    LET splits == Split(tagValue, "=")
    IN  IF Len(splits) < 2 THEN [name |-> <<>>, ok |-> FALSE]
        ELSE IF splits[1] = tagModifier THEN [name |-> splits[2], ok |-> TRUE]
        ELSE [name |-> <<>>, ok |-> FALSE]

resolveTagValueWithModifier(tagValue, tagModifier) ==
    LET splits == Split(tagValue, "=")
    IN  IF Len(splits) # 2 THEN [name |-> <<>>, ok |-> FALSE]
        ELSE IF splits[1] = tagModifier THEN [name |-> splits[2], ok |-> TRUE]
        ELSE [name |-> <<>>, ok |-> FALSE]

resolveTagWithModifier(p, fieldTag, tagModifier) ==
    LET r == TagNameResolver(p.tagName, fieldTag)
    IN  IF ~r.ok THEN [name |-> <<>>, ok |-> FALSE]
        ELSE resolveTagValueWithModifier(r.name, tagModifier)

resolvePath(p, fieldTag) == resolveTagWithModifier(p, fieldTag, pathTagValuePrefix)
resolveForm(p, fieldTag) == resolveTagWithModifier(p, fieldTag, formTagValuePrefix)
resolveQuery(p, fieldTag) == resolveTagWithModifier(p, fieldTag, queryTagValuePrefix)

----------------------------------------------------------------------------
(* Field-path discovery *)

\* The zero reflect.Value a fresh taggedFieldIndexPath holds in destValue.
NoValue == [valid |-> FALSE, a |-> 0, ip |-> <<>>, typ |-> Prim("invalid"),
            embedRO |-> FALSE, stickyRO |-> FALSE]

taggedFieldIndexPath(pt, pn, ip) ==
    [paramType |-> pt, paramName |-> pn, indexPath |-> ip, destValue |-> NoValue]

\* Mutant: a field is registered whether or not its tag resolves.
appendAlways(paths0, r, pt, newPath) ==
    Append(paths0, taggedFieldIndexPath(pt, r.name, newPath))

appendIf(paths0, r, pt, newPath) ==
    IF r.ok THEN Append(paths0, taggedFieldIndexPath(pt, r.name, newPath)) ELSE paths0

\* Mutant: a field tagged for the path is registered for the query too.
fieldEntriesAlsoQuery(p, typeField, newPath, paths1) ==
    IF ~typeField.exported THEN paths1
    ELSE appendIf(appendIf(appendIf(paths1,
                                    resolvePath(p, typeField.tag), "path", newPath),
                           resolveForm(p, typeField.tag), "form", newPath),
                  IF resolveQuery(p, typeField.tag).ok
                  THEN resolveQuery(p, typeField.tag)
                  ELSE resolvePath(p, typeField.tag), "query", newPath)

\* The part of the loop body of findTaggedIndexPaths after the recursion
\* into an embedded struct: the entries of field i itself.
fieldEntries(p, typeField, newPath, paths1) ==
    IF ~typeField.exported THEN paths1
    ELSE appendIf(appendIf(appendIf(paths1,
                                    resolvePath(p, typeField.tag), "path", newPath),
                           resolveForm(p, typeField.tag), "form", newPath),
                  resolveQuery(p, typeField.tag), "query", newPath)

\* The type findTaggedIndexPaths looks at for an embedded field.
derefType(t) == IF t.kind = "ptr" THEN t.elem[1] ELSE t

\* The loop of findTaggedIndexPaths from field i on.  Field indices count
\* from 1 here and from 0 in Go.
RECURSIVE findTaggedFrom(_, _, _, _, _)
RECURSIVE embeddedEntries(_, _, _, _)
\* Mutant: only an exported embedded field is entered.
embeddedEntriesExported(p, typeField, newPath, paths0) ==
    IF typeField.exported /\ typeField.anonymous
          /\ derefType(typeField.typ).kind = "struct"
    THEN findTaggedFrom(p, derefType(typeField.typ), newPath, paths0, 1)
    ELSE paths0

embeddedEntries(p, typeField, newPath, paths0) ==
    IF typeField.anonymous /\ derefType(typeField.typ).kind = "struct"
    THEN findTaggedFrom(p, derefType(typeField.typ), newPath, paths0, 1)
    ELSE paths0

findTaggedFrom(p, typ, currentNestingIndexPath, paths0, i) ==
    IF i > Len(typ.fields) THEN paths0
    ELSE findTaggedFrom(p, typ, currentNestingIndexPath,
             fieldEntries(p, typ.fields[i], Append(currentNestingIndexPath, i),
                 embeddedEntries(p, typ.fields[i], Append(currentNestingIndexPath, i),
                                 paths0)),
             i + 1)

findTaggedIndexPaths(p, typ, currentNestingIndexPath, paths0) ==
    findTaggedFrom(p, typ, currentNestingIndexPath, paths0, 1)

----------------------------------------------------------------------------
(* Errors *)

\* An error is the chain of its wrapped messages, outermost first; <<>> is
\* nil.  arg is the parameter name a message carries, typ the type name.
NoError == <<>>
E(msg, arg, typ) == <<[msg |-> msg, arg |-> arg, typ |-> typ]>>
Wrap(msg, arg, inner) == E(msg, arg, "") \o inner
\* A run-time panic: Parse does not return, the value is what it panics with.
Panic(msg) == <<[msg |-> msg, arg |-> <<>>, typ |-> "panic"]>>
IsPanic(e) == e # <<>> /\ e[1].typ = "panic"
ErrorIs(e, target) == \E i \in 1..Len(e) : e[i].msg = target
ErrSyntax == "strconv.ErrSyntax"
ErrRange == "strconv.ErrRange"

----------------------------------------------------------------------------
(* Zeroing *)

\* reflect.Value.CanSet: addressable and reached through no unexported field.
\* Mutant: every value is taken for settable.
CanSetAlways(v) == TRUE

CanSet(v) == ~v.embedRO /\ ~v.stickyRO

\* reflect.Value.Elem of a pointer: the read-only flags are inherited.
ElemOf(h, v) ==
    [valid |-> TRUE, a |-> Get(h, v).p, ip |-> <<>>, typ |-> v.typ.elem[1],
     embedRO |-> v.embedRO, stickyRO |-> v.stickyRO]

\* reflect.Value.Field(i): the sticky flag is inherited, the embed flag is
\* not; an unexported field sets the embed flag if embedded, else the sticky.
FieldOf(v, i) ==
    LET f == v.typ.fields[i]
    IN  [valid |-> TRUE, a |-> v.a, ip |-> Append(v.ip, i), typ |-> f.typ,
         embedRO |-> ~f.exported /\ f.anonymous,
         stickyRO |-> v.stickyRO \/ (~f.exported /\ ~f.anonymous)]

\* The value reflect.ValueOf(dest).Elem() of Parse: the struct in cell 1.
RootValue(typ) ==
    [valid |-> TRUE, a |-> 1, ip |-> <<>>, typ |-> typ,
     embedRO |-> FALSE, stickyRO |-> FALSE]

\* The head of the loop body of zeroPath: a pointer is dereferenced.
derefValue(h, v) == IF v.typ.kind = "ptr" THEN ElemOf(h, v) ELSE v

\* The loop of zeroPath over the remaining indices rest of path.indexPath;
\* zeroField is its body once v = v.Field(i) is taken.
\* Result: the memory, the destValue stored in the path, the error.
RECURSIVE zeroFrom(_, _, _)
RECURSIVE zeroField(_, _, _)

\* Mutant: the field keeps what it held.
zeroValueSkipped(h, v) == h

\* v.Set(reflect.Zero(typeField.Type))
zeroValue(h, v) == Set(h, v, Zero(v.typ))

\* Mutant: the last field of the path keeps what it held.
zeroFieldKept(h, v, rest) ==
    IF Len(rest) = 1
    THEN IF CanSet(v)
         THEN [h |-> h, destValue |-> v, err |-> NoError]
         ELSE [h |-> h, destValue |-> NoValue,
               err |-> Panic("reflect.Value.Set using value obtained using unexported field")]
    ELSE IF v.typ.kind = "ptr" /\ Get(h, v).p = 0
    THEN IF ~CanSet(v)
         THEN [h |-> h, destValue |-> NoValue,
               err |-> E("cannot set embedded pointer to unexported struct", <<>>,
                         v.typ.elem[1].name)]
         ELSE zeroFrom(Append(Set(h, v, PtrV(Len(h) + 1)), Zero(v.typ.elem[1])),
                       v, Tail(rest))
    ELSE zeroFrom(h, v, Tail(rest))

zeroField(h, v, rest) ==
    IF Len(rest) = 1
    THEN IF CanSet(v)
         THEN [h |-> zeroValue(h, v), destValue |-> v, err |-> NoError]
         ELSE [h |-> h, destValue |-> NoValue,
               err |-> Panic("reflect.Value.Set using value obtained using unexported field")]
    ELSE IF v.typ.kind = "ptr" /\ Get(h, v).p = 0
    THEN IF ~CanSet(v)
         THEN [h |-> h, destValue |-> NoValue,
               err |-> E("cannot set embedded pointer to unexported struct", <<>>,
                         v.typ.elem[1].name)]
         ELSE zeroFrom(Append(Set(h, v, PtrV(Len(h) + 1)), Zero(v.typ.elem[1])),
                       v, Tail(rest))
    ELSE zeroFrom(h, v, Tail(rest))

zeroFrom(h, v0, rest) == zeroField(h, FieldOf(derefValue(h, v0), Head(rest)), rest)

zeroPath(h, v, path) == zeroFrom(h, v, path.indexPath)

----------------------------------------------------------------------------
(* Numbers: strconv *)

DigitChars == {"0", "1", "2", "3", "4", "5", "6", "7", "8", "9"}

DigitVal(c) ==
    CASE c = "0" -> 0 [] c = "1" -> 1 [] c = "2" -> 2 [] c = "3" -> 3
      [] c = "4" -> 4 [] c = "5" -> 5 [] c = "6" -> 6 [] c = "7" -> 7
      [] c = "8" -> 8 [] c = "9" -> 9

DigitChar(d) ==
    CASE d = 0 -> "0" [] d = 1 -> "1" [] d = 2 -> "2" [] d = 3 -> "3"
      [] d = 4 -> "4" [] d = 5 -> "5" [] d = 6 -> "6" [] d = 7 -> "7"
      [] d = 8 -> "8" [] d = 9 -> "9"

\* Magnitudes are sequences of digits, most significant first, without
\* leading zeros; <<>> is 0.
MagLess(x, y) ==
    \/ Len(x) < Len(y)
    \/ /\ Len(x) = Len(y)
       /\ \E i \in 1..Len(x) :
            /\ x[i] < y[i]
            /\ \A j \in 1..(i - 1) : x[j] = y[j]

\* 10 * x + d
MagPush(x, d) == IF x = <<>> /\ d = 0 THEN <<>> ELSE Append(x, d)

\* m * x + c for a small factor m and a carry c, digit by digit from the
\* right.
RECURSIVE MagTimes(_, _, _)
MagTimes(x, m, c) ==
    IF x = <<>> /\ c = 0 THEN <<>>
    ELSE LET d == m * (IF x = <<>> THEN 0 ELSE x[Len(x)]) + c
         IN  Append(MagTimes(IF x = <<>> THEN <<>> ELSE SubSeq(x, 1, Len(x) - 1),
                             m, d \div 10),
                    d % 10)

\* 1 << n, eight bits at a time.
RECURSIVE MagPow2(_)
MagPow2(n) ==
    IF n = 0 THEN <<1>>
    ELSE IF n >= 8 THEN MagTimes(MagPow2(n - 8), 256, 0)
    ELSE MagTimes(MagPow2(n - 1), 2, 0)

\* 1 << n for the widths strconv is called with.
Pow2 == [n \in {7, 8, 15, 16, 31, 32, 63, 64} |-> MagPow2(n)]

\* reflect.Type.Bits() of an integer kind.
Bits(kind, isz) ==
    CASE kind \in {"int8", "uint8"} -> 8
      [] kind \in {"int16", "uint16"} -> 16
      [] kind \in {"int32", "uint32"} -> 32
      [] kind \in {"int64", "uint64"} -> 64
      [] kind \in {"int", "uint"} -> isz

\* strconv.ParseUint(s, 10, bitSize): the digits are read from the left; the
\* first character that is no digit is a syntax error, the first digit that
\* takes the value past 1<<bitSize - 1 a range error.
RECURSIVE parseUintFrom(_, _, _, _)
parseUintFrom(s, i, acc, bitSize) ==
    IF i > Len(s) THEN [mag |-> acc, err |-> ""]
    ELSE IF s[i] \notin DigitChars THEN [mag |-> <<>>, err |-> ErrSyntax]
    ELSE LET n1 == MagPush(acc, DigitVal(s[i]))
         IN  IF ~MagLess(n1, Pow2[bitSize])
             THEN [mag |-> <<>>, err |-> ErrRange]
             ELSE parseUintFrom(s, i + 1, n1, bitSize)

ParseUint(s, bitSize) ==
    IF s = <<>> THEN [mag |-> <<>>, err |-> ErrSyntax]
    ELSE parseUintFrom(s, 1, <<>>, bitSize)

\* Mutant: the cutoff itself is taken for a positive value in range.
outOfRangePastCutoff(neg, un, cutoff) ==
    \/ ~neg /\ MagLess(cutoff, un)
    \/ neg /\ MagLess(cutoff, un)

\* The range check of ParseInt: un is the magnitude read, cutoff is
\* 1 << (bitSize-1).
outOfRange(neg, un, cutoff) ==
    \/ ~neg /\ ~MagLess(un, cutoff)
    \/ neg /\ MagLess(cutoff, un)

\* strconv.ParseInt(s, 10, bitSize)
signed(neg, un, cutoff) ==
    IF un.err # "" THEN [neg |-> FALSE, mag |-> <<>>, err |-> un.err]
    ELSE IF outOfRange(neg, un.mag, cutoff)
         THEN [neg |-> FALSE, mag |-> <<>>, err |-> ErrRange]
    ELSE [neg |-> neg /\ un.mag # <<>>, mag |-> un.mag, err |-> ""]

ParseInt(s, bitSize) ==
    IF s = <<>> THEN [neg |-> FALSE, mag |-> <<>>, err |-> ErrSyntax]
    ELSE signed(s[1] = "-",
                ParseUint(IF s[1] \in {"+", "-"} THEN Tail(s) ELSE s, bitSize),
                Pow2[bitSize - 1])

\* strconv.ParseBool
ParseBool(s) ==
    IF s \in {<<"1">>, <<"t">>, <<"T">>, <<"T","R","U","E">>, <<"t","r","u","e">>,
              <<"T","r","u","e">>}
    THEN [b |-> TRUE, err |-> ""]
    ELSE IF s \in {<<"0">>, <<"f">>, <<"F">>, <<"F","A","L","S","E">>,
                   <<"f","a","l","s","e">>, <<"F","a","l","s","e">>}
    THEN [b |-> FALSE, err |-> ""]
    ELSE [b |-> FALSE, err |-> ErrSyntax]

----------------------------------------------------------------------------
(* Value coercer *)

\* What a step works on besides its destination: the memory, the calls made
\* and the global of valueReceiverUnmarshaler.
World(h, l, g) == [h |-> h, log |-> l, vrr |-> g]
Ev(op, arg) == [op |-> op, arg |-> arg]
Logged(w, op, arg) == [w EXCEPT !.log = Append(w.log, Ev(op, arg))]

\* Results: the world, the value the destination holds afterwards, the error.
Res(w, v, e) == [w |-> w, v |-> v, err |-> e]

\* The error branch of unmarshalPrimitiveValue, or the value set.
parsed(w, text, typ, cur, perr, v) ==
    IF perr # ""
    THEN Res(w, cur, Wrap("parsing into field of type", <<>>, E(perr, text, typ.name)))
    ELSE Res(w, v, NoError)

unmarshalBool(w, text, typ, cur, r) == parsed(w, text, typ, cur, r.err, BoolV(r.b))
unmarshalInt(w, text, typ, cur, r) == parsed(w, text, typ, cur, r.err, IntV(r.neg, r.mag))
unmarshalUint(w, text, typ, cur, r) == parsed(w, text, typ, cur, r.err, IntV(FALSE, r.mag))

\* Mutant: a slice of strings is made of the one text.
unmarshalPrimitiveValueOrSlice(w, text, typ, cur, isz) ==
    IF typ.kind = "bool"
    THEN unmarshalBool(w, text, typ, cur, ParseBool(text))
    ELSE IF typ.kind \in SignedKinds
    THEN unmarshalInt(w, text, typ, cur, ParseInt(text, Bits(typ.kind, isz)))
    ELSE IF typ.kind \in UnsignedKinds
    THEN unmarshalUint(w, text, typ, cur, ParseUint(text, Bits(typ.kind, isz)))
    ELSE IF typ.kind = "string"
    THEN Res(w, StrV(text), NoError)
    ELSE IF typ.kind = "slice" /\ typ.elem[1].kind = "string"
    THEN Res(w, SliceV(<<StrV(text)>>), NoError)
    ELSE Res(w, cur, E("unsupported field type", <<>>, typ.name))

unmarshalPrimitiveValue(w, text, typ, cur, isz) ==
    IF typ.kind = "bool"
    THEN unmarshalBool(w, text, typ, cur, ParseBool(text))
    ELSE IF typ.kind \in SignedKinds
    THEN unmarshalInt(w, text, typ, cur, ParseInt(text, Bits(typ.kind, isz)))
    ELSE IF typ.kind \in UnsignedKinds
    THEN unmarshalUint(w, text, typ, cur, ParseUint(text, Bits(typ.kind, isz)))
    ELSE IF typ.kind = "string"
    THEN Res(w, StrV(text), NoError)
    ELSE Res(w, cur, E("unsupported field type", <<>>, typ.name))

\* (*myComplicatedType).UnmarshalText
UnmarshalText_myComplicatedType(cur, text) == StructV(<<StrV(<<"m", "y">> \o text)>>)

\* (*maybeShinyObject).UnmarshalText: fields IsShiny, Object.
UnmarshalText_maybeShinyObject(cur, text) ==
    IF HasPrefix(text, <<"s", "h", "i", "n", "y", "-">>)
    THEN StructV(<<BoolV(TRUE), StrV(SubSeq(text, 7, Len(text)))>>)
    ELSE [cur EXCEPT !.e[2] = StrV(text)]

\* The call unmarshaler.UnmarshalText([]byte(text)) on the address of a
\* destination of type typ.  valueReceiverUnmarshaler writes its global and
\* leaves the destination; a named slice type of a caller that implements
\* the interface (textList) stores "my"+text as its only element.
UnmarshalText(w, typ, cur, text) ==
    LET w1 == Logged(w, "UnmarshalText", text)
    IN  CASE typ.name = "myComplicatedType" ->
               Res(w1, UnmarshalText_myComplicatedType(cur, text), NoError)
          [] typ.name = "maybeShinyObject" ->
               Res(w1, UnmarshalText_maybeShinyObject(cur, text), NoError)
          [] typ.name = "valueReceiverUnmarshaler" ->
               Res([w1 EXCEPT !.vrr = text], cur, NoError)
          [] OTHER ->
               Res(w1, SliceV(<<StrV(<<"m", "y">> \o text)>>), NoError)

\* Mutant: a slice is taken for a slice before its address is asked for
\* the interface.
implementsUnlessSlice(typ) == typ.tu /\ typ.kind # "slice"

\* dest.Addr().Interface().(encoding.TextUnmarshaler)
implementsTextUnmarshaler(typ) == typ.tu

\* Mutant: the number of texts is not looked at.
tooManyNever(texts) == FALSE

\* len(texts) != 1
tooMany(texts) == Len(texts) # 1

\* Mutant: the elements come out in reverse order.
withElemInFront(done, v) == <<v>> \o done

\* sliceValue.Index(i) takes the value unmarshaled from texts[i].
withElem(done, v) == Append(done, v)

\* The pointer branch: dest.Set(reflect.New(t.Elem())), then the pointee
\* (cell a) is what the recursive call r worked on.
\* Mutant: the new pointer is not stored in the destination.
pointerToUnset(a, r) == Res([r.w EXCEPT !.h[a] = r.v], V0, r.err)

allocated(w, t) == [w EXCEPT !.h = Append(w.h, Zero(t))]
pointerTo(a, r) == Res([r.w EXCEPT !.h[a] = r.v], PtrV(a), r.err)

RECURSIVE unmarshalValue(_, _, _, _, _)
unmarshalValue(w, text, typ, cur, isz) ==
    IF implementsTextUnmarshaler(typ) THEN UnmarshalText(w, typ, cur, text)
    ELSE IF typ.kind = "ptr"
    THEN pointerTo(Len(w.h) + 1,
                   unmarshalValue(allocated(w, typ.elem[1]), text, typ.elem[1],
                                  Zero(typ.elem[1]), isz))
    ELSE unmarshalPrimitiveValue(w, text, typ, cur, isz)

\* The loop of unmarshalValueOrSlice over the elements of the new slice;
\* elemDone is its body once element i was unmarshaled with result r.
RECURSIVE unmarshalElems(_, _, _, _, _, _)
RECURSIVE elemDone(_, _, _, _, _, _)
\* Mutant: the elements are counted from one in the error.
elemDoneFromOne(r, texts, i, elemTyp, done, isz) ==
    IF r.err # NoError
    THEN Res(r.w, V0, Wrap("unmarshaling %dth element", <<DigitChar(i)>>, r.err))
    ELSE unmarshalElems(r.w, texts, i + 1, elemTyp, withElem(done, r.v), isz)

elemDone(r, texts, i, elemTyp, done, isz) ==
    IF r.err # NoError
    THEN Res(r.w, V0, Wrap("unmarshaling %dth element", <<DigitChar(i - 1)>>, r.err))
    ELSE unmarshalElems(r.w, texts, i + 1, elemTyp, withElem(done, r.v), isz)

unmarshalElems(w, texts, i, elemTyp, done, isz) ==
    IF i > Len(texts) THEN Res(w, SliceV(done), NoError)
    ELSE elemDone(unmarshalValue(w, texts[i], elemTyp, Zero(elemTyp), isz),
                  texts, i, elemTyp, done, isz)

\* dest.Set(sliceValue) is reached only when no element failed.
sliceSet(r, cur) == IF r.err # NoError THEN Res(r.w, cur, r.err) ELSE r

RECURSIVE unmarshalValueOrSlice(_, _, _, _, _)
unmarshalValueOrSlice(w, texts, typ, cur, isz) ==
    IF implementsTextUnmarshaler(typ)
    THEN IF tooMany(texts)
         THEN Res(w, cur, E("too many parameters unmarshaling, expected up to 1 value",
                            <<>>, typ.name))
         ELSE UnmarshalText(w, typ, cur, texts[1])
    ELSE IF typ.kind = "ptr"
    THEN pointerTo(Len(w.h) + 1,
                   unmarshalValueOrSlice(allocated(w, typ.elem[1]), texts, typ.elem[1],
                                         Zero(typ.elem[1]), isz))
    ELSE IF typ.kind = "slice"
    THEN sliceSet(unmarshalElems(w, texts, 1, typ.elem[1], <<>>, isz), cur)
    ELSE IF tooMany(texts)
    THEN Res(w, cur, E("too many parameters unmarshaling, expected up to 1 value",
                       <<>>, typ.name))
    ELSE unmarshalPrimitiveValue(w, texts[1], typ, cur, isz)

----------------------------------------------------------------------------
(* Parameter sources *)

\* The values a multi-map holds under name, in request order
\* (url.Values[name]); pairs is the sequence of the name=value pairs.
RECURSIVE ValuesOf(_, _)
ValuesOf(pairs, name) ==
    IF pairs = <<>> THEN <<>>
    ELSE IF Head(pairs).name = name
         THEN <<Head(pairs).value>> \o ValuesOf(Tail(pairs), name)
         ELSE ValuesOf(Tail(pairs), name)

\* url.Values.Get, chi.URLParam: the first value under name, "" if none.
FirstOf(pairs, name) ==
    LET vs == ValuesOf(pairs, name) IN IF vs = <<>> THEN <<>> ELSE vs[1]

\* DefaultFormParamFunc: r.PostFormValue(key)
DefaultFormParamFunc(r, key) == FirstOf(r.form, key)

FormMethods == {"POST", "PUT", "PATCH"}

\* Results of the parse functions: the world and the error.  bound is the
\* tail of each of them: u is what the coercer returned for destination v.
bound(u, v, msg, paramName) ==
    [w |-> [u.w EXCEPT !.h = Set(u.w.h, v, u.v)],
     err |-> IF u.err # NoError THEN Wrap(msg, paramName, u.err) ELSE NoError]

\* Mutant: the empty text is unmarshaled like any other.
singleAlways(w, paramValue, v, msg, paramName, isz) ==
    bound(unmarshalValue(w, paramValue, v.typ, Get(w.h, v), isz), v, msg, paramName)

\* if paramValue != "" { unmarshalValue(paramValue, v) }
single(w, paramValue, v, msg, paramName, isz) ==
    IF paramValue # <<>>
    THEN bound(unmarshalValue(w, paramValue, v.typ, Get(w.h, v), isz), v, msg, paramName)
    ELSE [w |-> w, err |-> NoError]

\* Mutant: without a PathParamFunc the field is left alone.
parsePathParamLenient(w, p, r, paramName, v, isz) ==
    IF ~p.hasPathParamFunc
    THEN [w |-> w, err |-> NoError]
    ELSE single(Logged(w, "PathParamFunc", paramName), FirstOf(r.path, paramName), v,
                "unmarshaling path parameter", paramName, isz)

parsePathParam(w, p, r, paramName, v, isz) ==
    IF ~p.hasPathParamFunc
    THEN [w |-> w, err |-> E("PathParamFunc to get value of path parameter is not defined",
                             paramName, "")]
    ELSE single(Logged(w, "PathParamFunc", paramName), FirstOf(r.path, paramName), v,
                "unmarshaling path parameter", paramName, isz)

\* (*http.Request).ParseMultipartForm, by the body of the request.  When
\* r.Form is not set yet it calls r.ParseForm itself and keeps the error to
\* return it at its end, which it reaches only with a multipart body that
\* it could read: a body that is not multipart returns ErrNotMultipart
\* whatever ParseForm said.
ErrNotMultipart == "http.ErrNotMultipart"
ParseMultipartForm(r) ==
    CASE r.body = "multipart" -> ""
      [] r.body = "badmultipart" -> "multipart: NextPart: EOF"
      [] OTHER -> ErrNotMultipart

\* (*http.Request).ParseForm: with r.PostForm and r.Form set by an earlier
\* call nothing is parsed and nil is returned.
ParseForm(r, formSet) ==
    IF formSet THEN ""
    ELSE IF r.body = "badform" THEN "invalid URL escape"
    ELSE ""

\* The calls of r.ParseMultipartForm, and of r.ParseForm if the body is not
\* multipart, as parseFormParam makes them.
formParsed(w, r) ==
    IF ParseMultipartForm(r) # ErrNotMultipart
    THEN Logged(w, "ParseMultipartForm", <<>>)
    ELSE Logged(Logged(w, "ParseMultipartForm", <<>>), "ParseForm", <<>>)

parseFormParam(w, p, r, paramName, v, isz) ==
    IF r.method \notin FormMethods
    THEN [w |-> w, err |-> E("request method is not POST, PUT or PATCH", paramName, "")]
    ELSE IF ParseMultipartForm(r) \notin {"", ErrNotMultipart}
    THEN [w |-> formParsed(w, r),
          err |-> Wrap("parsing multipart form", <<>>, E(ParseMultipartForm(r), <<>>, ""))]
    ELSE IF ParseMultipartForm(r) = ErrNotMultipart /\ ParseForm(r, TRUE) # ""
    THEN [w |-> formParsed(w, r),
          err |-> Wrap("parsing form", <<>>, E(ParseForm(r, TRUE), <<>>, ""))]
    ELSE IF ~p.hasFormParamFunc
    THEN [w |-> formParsed(w, r),
          err |-> Panic("invalid memory address or nil pointer dereference")]
    ELSE single(Logged(formParsed(w, r), "FormParamFunc", paramName),
                DefaultFormParamFunc(r, paramName), v,
                "unmarshaling form parameter", paramName, isz)

\* Mutant: a first value that is empty counts as no value.
multiNonEmpty(w, values, v, msg, paramName, isz) ==
    IF Len(values) > 0 /\ values[1] # <<>>
    THEN bound(unmarshalValueOrSlice(w, values, v.typ, Get(w.h, v), isz), v, msg, paramName)
    ELSE [w |-> w, err |-> NoError]

\* if values, ok := query[paramName]; ok && len(values) > 0 { ... }
multi(w, values, v, msg, paramName, isz) ==
    IF Len(values) > 0
    THEN bound(unmarshalValueOrSlice(w, values, v.typ, Get(w.h, v), isz), v, msg, paramName)
    ELSE [w |-> w, err |-> NoError]

parseQueryParam(w, p, r, paramName, v, isz) ==
    multi(Logged(w, "Query", paramName), ValuesOf(r.query, paramName), v,
          "unmarshaling query parameter", paramName, isz)

parseParam(w, p, r, path, isz) ==
    CASE path.paramType = "path" ->
           parsePathParam(w, p, r, path.paramName, path.destValue, isz)
      [] path.paramType = "form" ->
           parseFormParam(w, p, r, path.paramName, path.destValue, isz)
      [] path.paramType = "query" ->
           parseQueryParam(w, p, r, path.paramName, path.destValue, isz)

----------------------------------------------------------------------------
(* Parser.Parse *)

\* Parse up to the first loop: the shape of dest is checked and the tagged
\* fields are discovered.  destTyp is the type of dest itself.
ParseStart ==
    /\ pc = "start"
    /\ IF destTyp.kind = "invalid" \/ (destTyp.kind = "ptr" /\ heap = <<>>)
       THEN \* v.Type() of the zero Value that reflect.ValueOf(nil) and the
            \* Elem() of a nil pointer are
            /\ pc' = "panic"
            /\ err' = Panic("reflect: call of reflect.Value.Type on zero Value")
            /\ UNCHANGED <<paths, idx>>
       ELSE IF destTyp.kind # "ptr"
       THEN /\ pc' = "done"
            /\ err' = E("cannot set non-pointer value of type", <<>>, destTyp.name)
            /\ UNCHANGED <<paths, idx>>
       ELSE IF destTyp.elem[1].kind # "struct"
       THEN /\ pc' = "done"
            /\ err' = E("can only parse into struct, but got", <<>>, destTyp.elem[1].name)
            /\ UNCHANGED <<paths, idx>>
       ELSE /\ paths' = findTaggedIndexPaths(parser, destTyp.elem[1], <<>>, <<>>)
            /\ pc' = IF paths' = <<>> THEN "binding" ELSE "zeroing"
            /\ idx' = 1
            /\ err' = err
    /\ UNCHANGED <<parser, req, destTyp, intSize, heap, heap0, log,
                   valueReceiverResult, peer, outsideParse>>

\* Mutant: the first loop is left after its first pass.
zeroingDoneEarly(i, ps) == TRUE

\* Whether pass i was the last of the first loop.
zeroingDone(i, ps) == i = Len(ps)

\* Mutant: when zeroPath fails the destination is put back as it was.
zeroedRolledBack(r) ==
    /\ heap' = IF r.err # NoError THEN heap0 ELSE r.h
    /\ paths' = [paths EXCEPT ![idx].destValue = r.destValue]
    /\ log' = Append(log, Ev("zeroPath", paths[idx].paramName))
    /\ IF r.err # NoError
       THEN /\ pc' = IF IsPanic(r.err) THEN "panic" ELSE "done"
            /\ err' = r.err
            /\ idx' = idx
       ELSE /\ pc' = IF zeroingDone(idx, paths) THEN "binding" ELSE "zeroing"
            /\ idx' = IF zeroingDone(idx, paths) THEN 1 ELSE idx + 1
            /\ err' = err

\* The rest of a pass of the first loop, r being what zeroPath returned.
zeroed(r) ==
    /\ heap' = r.h
    /\ paths' = [paths EXCEPT ![idx].destValue = r.destValue]
    /\ log' = Append(log, Ev("zeroPath", paths[idx].paramName))
    /\ IF r.err # NoError
       THEN /\ pc' = IF IsPanic(r.err) THEN "panic" ELSE "done"
            /\ err' = r.err
            /\ idx' = idx
       ELSE /\ pc' = IF zeroingDone(idx, paths) THEN "binding" ELSE "zeroing"
            /\ idx' = IF zeroingDone(idx, paths) THEN 1 ELSE idx + 1
            /\ err' = err

\* One pass of the first loop of Parse: zeroPath(v, &fieldIndexPaths[i]).
ZeroStep ==
    /\ pc = "zeroing"
    /\ idx <= Len(paths)
    /\ zeroed(zeroPath(heap, RootValue(destTyp.elem[1]), paths[idx]))
    /\ UNCHANGED <<parser, req, destTyp, intSize, heap0, valueReceiverResult,
                   peer, outsideParse>>

\* Mutant: the second loop goes on after an error.
parsedParamGoesOn(r) ==
    /\ heap' = r.w.h
    /\ log' = r.w.log
    /\ valueReceiverResult' = r.w.vrr
    /\ pc' = IF IsPanic(r.err) THEN "panic" ELSE "binding"
    /\ idx' = idx + 1
    /\ err' = IF r.err # NoError THEN r.err ELSE err

\* The rest of a pass of the second loop, r being what parseParam returned.
parsedParam(r) ==
    /\ heap' = r.w.h
    /\ log' = r.w.log
    /\ valueReceiverResult' = r.w.vrr
    /\ IF r.err # NoError
       THEN /\ pc' = IF IsPanic(r.err) THEN "panic" ELSE "done"
            /\ err' = r.err
            /\ idx' = idx
       ELSE /\ pc' = "binding"
            /\ idx' = idx + 1
            /\ err' = err

\* One pass of the second loop of Parse: p.parseParam(r, path).
BindStep ==
    /\ pc = "binding"
    /\ idx <= Len(paths)
    /\ parsedParam(parseParam(World(heap, log, valueReceiverResult), parser, req,
                              paths[idx], intSize))
    /\ UNCHANGED <<parser, req, destTyp, intSize, heap0, paths, peer, outsideParse>>

\* The second loop is over: return nil.
ParseReturn ==
    /\ pc = "binding"
    /\ idx > Len(paths)
    /\ pc' = "done"
    /\ err' = NoError
    /\ UNCHANGED <<parser, req, destTyp, intSize, heap, heap0, idx, paths, log,
                   valueReceiverResult, peer, outsideParse>>

Next == ParseStart \/ ZeroStep \/ BindStep \/ ParseReturn

----------------------------------------------------------------------------
(* Destination types *)

String == Prim("string")
MapType == [Prim("map") EXCEPT !.name = ""]

myComplicatedType ==
    Named("myComplicatedType",
          StructOf("", <<Field("Value", TRUE, FALSE, NoTag, String)>>), TRUE)

maybeShinyObject ==
    Named("maybeShinyObject",
          StructOf("", <<Field("IsShiny", TRUE, FALSE, NoTag, Prim("bool")),
                         Field("Object", TRUE, FALSE, NoTag, String)>>), TRUE)

valueReceiverUnmarshaler == Named("valueReceiverUnmarshaler", StructOf("", <<>>), TRUE)

\* type textList []string with a method (*textList).UnmarshalText
textList == Named("textList", SliceOf(String), TRUE)

\* Parameter names
NameA == <<"a">>
NameB == <<"b">>

ModifierOf(kind) ==
    CASE kind = "path" -> pathTagValuePrefix
      [] kind = "form" -> formTagValuePrefix
      [] kind = "query" -> queryTagValuePrefix

\* The tag `param:"<kind>=<name>"`
ParamTag(kind, name) == Tag(defaultTagName, ModifierOf(kind) \o <<"=">> \o name)

SourceKinds == {"path", "form", "query"}

\* The types of the tagged field F of the flat destinations.
FieldTypes ==
    {String, Prim("bool"), Prim("int8"), Prim("uint16"),
     PtrTo(String), PtrTo(PtrTo(String)), PtrTo(Prim("int8")),
     SliceOf(String), SliceOf(Prim("int8")), SliceOf(PtrTo(String)),
     PtrTo(SliceOf(String)),
     myComplicatedType, PtrTo(myComplicatedType), SliceOf(myComplicatedType),
     maybeShinyObject, valueReceiverUnmarshaler, textList, MapType}

\* Fields that yield no tag descriptor (otherFieldsStruct.Other,
\* variousTagsStruct, structWithPrimitiveTypes.ignoredUnexported).
OtherFields ==
    {Field("Other", TRUE, FALSE, NoTag, String),
     Field("Other", TRUE, FALSE, Tag("json", <<"o", "t", "h", "e", "r">>), String),
     Field("Other", TRUE, FALSE,
           Tag(defaultTagName, queryTagValuePrefix \o <<"=", "a", "=", "x">>), String),
     Field("Other", TRUE, FALSE, Tag(defaultTagName, <<"a">>), String),
     Field("ignoredUnexported", FALSE, FALSE, ParamTag("query", NameA), String)}

\* struct { F t `param:"kind=a"`; <other>; G string `param:"query=b"` }
Flat(t, kind, other) ==
    StructOf("flat", <<Field("F", TRUE, FALSE, ParamTag(kind, NameA), t),
                       other,
                       Field("G", TRUE, FALSE, ParamTag("query", NameB), String)>>)

\* The embedded struct of the embedding destinations: a tagged field and
\* one without a descriptor.
Embedded(n) ==
    StructOf(n, <<Field("Embedded", TRUE, FALSE, ParamTag("query", NameA), String),
                  Field("Keep", TRUE, FALSE, NoTag, String)>>)

EmbeddedStruct == Embedded("EmbeddedStruct")
embeddedStruct == Embedded("embeddedStruct")

\* struct { <embedded field of type t> }
Embedding(n, ex, tg, t) ==
    StructOf(n, <<Field(IF t.kind = "ptr" THEN t.elem[1].name ELSE t.name,
                        ex, TRUE, tg, t)>>)

embeddingStruct == Embedding("embeddingStruct", TRUE, NoTag, EmbeddedStruct)
embeddingPtrStruct == Embedding("embeddingPtrStruct", TRUE, NoTag, PtrTo(EmbeddedStruct))
embeddingUnexported == Embedding("embeddingUnexported", FALSE, NoTag, embeddedStruct)
embeddingUnexportedPtr ==
    Embedding("embeddingUnexportedPtr", FALSE, NoTag, PtrTo(embeddedStruct))
embeddingNested == Embedding("embeddingNested", FALSE, NoTag, embeddingUnexported)
EmbeddingPtrStruct == Embedding("EmbeddingPtrStruct", TRUE, NoTag, PtrTo(EmbeddedStruct))
embeddingPtrNested == Embedding("embeddingPtrNested", TRUE, NoTag, PtrTo(EmbeddingPtrStruct))
\* the embedded field carries a tag itself
embeddingTagged ==
    Embedding("embeddingTagged", TRUE, ParamTag("query", NameB), EmbeddedStruct)
embeddingPtrTagged ==
    Embedding("embeddingPtrTagged", TRUE, ParamTag("query", NameB), PtrTo(EmbeddedStruct))

EmbeddingTypes ==
    {embeddingStruct, embeddingPtrStruct, embeddingUnexported, embeddingUnexportedPtr,
     embeddingNested, embeddingPtrNested, embeddingTagged, embeddingPtrTagged}

----------------------------------------------------------------------------
(* Destinations as the caller left them *)

Old == <<"o", "l", "d">>

\* A value of type t in which nothing is zero, and the memory that holds
\* what it points to.
pointee(r) == [h |-> Append(r.h, r.v), v |-> PtrV(Len(r.h) + 1)]
element(r) == [h |-> r.h, v |-> SliceV(<<r.v>>)]

RECURSIVE Prefill(_, _)
RECURSIVE PrefillFields(_, _, _, _)
RECURSIVE prefilledField(_, _, _, _)
Prefill(h, t) ==
    CASE t.kind = "struct" -> PrefillFields(h, t.fields, 1, <<>>)
      [] t.kind = "ptr" -> pointee(Prefill(h, t.elem[1]))
      [] t.kind = "slice" -> element(Prefill(h, t.elem[1]))
      [] t.kind = "string" -> [h |-> h, v |-> StrV(Old)]
      [] t.kind = "bool" -> [h |-> h, v |-> BoolV(TRUE)]
      [] t.kind = "map" -> [h |-> h, v |-> PtrV(1)]
      [] OTHER -> [h |-> h, v |-> IntV(FALSE, <<7>>)]

prefilledField(r, fs, i, done) == PrefillFields(r.h, fs, i + 1, Append(done, r.v))

PrefillFields(h, fs, i, done) ==
    IF i > Len(fs) THEN [h |-> h, v |-> StructV(done)]
    ELSE prefilledField(Prefill(h, fs[i].typ), fs, i, done)

rootCell(r) == [r.h EXCEPT ![1] = r.v]

\* The memory when Parse is called with a pointer to a struct of type t.
InitialHeap(t, prefilled) ==
    IF prefilled
    THEN rootCell(Prefill(<<Zero(t)>>, t))
    ELSE <<Zero(t)>>

----------------------------------------------------------------------------
(* Requests *)

Pair(n, v) == [name |-> n, value |-> v]

\* The texts a request carries under parameter a.
Texts == {<<>>, <<"1">>, <<"x">>, <<"1", "2", "8">>}

RECURSIVE SeqsUpTo(_, _)
SeqsUpTo(S, n) ==
    IF n = 0 THEN {<<>>}
    ELSE LET shorter == SeqsUpTo(S, n - 1)
         IN  shorter \cup {Append(q, x) : q \in {r \in shorter : Len(r) = n - 1}, x \in S}

PairsOf(n, vs) == [i \in 1..Len(vs) |-> Pair(n, vs[i])]

\* A request carries the same parameters in its query, its form body and
\* its path.  body: "urlencoded", "multipart", "badmultipart" (a multipart
\* body that does not parse), "badform" (a body ParseForm rejects).
Request(method, body, pairs) ==
    [method |-> method, body |-> body, query |-> pairs, form |-> pairs, path |-> pairs]

Requests ==
    {Request("POST", "urlencoded", PairsOf(NameA, vs) \o bs) :
        vs \in SeqsUpTo(Texts, MaxValues), bs \in {<<>>, <<Pair(NameB, <<"y">>)>>}}

DefaultParser == [tagName |-> defaultTagName, hasPathParamFunc |-> FALSE,
                  hasFormParamFunc |-> TRUE]
WithPathParamFunc(p) == [p EXCEPT !.hasPathParamFunc = TRUE]
WithFormParamFunc(p) == [p EXCEPT !.hasFormParamFunc = TRUE]

----------------------------------------------------------------------------
(* Specification *)

Scenario(p, r, t, prefilled) == [p |-> p, r |-> r, t |-> t, prefilled |-> prefilled]

Scenarios ==
    {Scenario(WithPathParamFunc(DefaultParser), r, t, pre) :
        r \in Requests,
        t \in {Flat(ft, k, Field("Other", TRUE, FALSE, NoTag, String)) :
                  ft \in FieldTypes, k \in SourceKinds}
              \cup {Flat(String, "query", o) : o \in OtherFields}
              \cup EmbeddingTypes,
        pre \in BOOLEAN}

InitOf(sc) ==
    /\ parser = sc.p
    /\ req = sc.r
    /\ destTyp = PtrTo(sc.t)
    /\ intSize = 64
    /\ heap = InitialHeap(sc.t, sc.prefilled)
    /\ heap0 = heap
    /\ pc = "start"
    /\ idx = 0
    /\ paths = <<>>
    /\ err = NoError
    /\ log = <<>>
    /\ valueReceiverResult = <<"o", "r", "i", "g">>
    /\ peer = NoCall
    /\ OnlyParse

Init == \E sc \in Scenarios : InitOf(sc)

Spec == Init /\ [][Next]_vars

----------------------------------------------------------------------------
(* What the claims speak about *)

\* The struct type Parse works on.
Root == destTyp.elem[1]

\* The calls that consult a parameter source.
SourceOps == {"PathParamFunc", "ParseMultipartForm", "ParseForm", "FormParamFunc", "Query"}
Consulted == \E i \in 1..Len(log) : log[i].op \in SourceOps
FirstConsult == CHOOSE i \in 1..Len(log) :
                    /\ log[i].op \in SourceOps
                    /\ \A j \in 1..(i - 1) : log[j].op \notin SourceOps

\* The field at index path ip as it is reached from the destination in
\* memory h; not valid if a pointer on the way is nil.
RECURSIVE fieldFrom(_, _, _)
fieldFrom(h, v, rest) ==
    IF rest = <<>> THEN v
    ELSE IF v.typ.kind = "ptr" /\ Get(h, v).p = 0 THEN NoValue
    ELSE fieldFrom(h, FieldOf(derefValue(h, v), Head(rest)), Tail(rest))

FieldRef(h, ip) == fieldFrom(h, RootValue(Root), ip)
Reachable(h, ip) == FieldRef(h, ip).valid
FieldVal(h, ip) == Get(h, FieldRef(h, ip))

\* The type of the field at index path ip of struct type t.
RECURSIVE TypeAt(_, _)
TypeAt(t, ip) ==
    IF ip = <<>> THEN t ELSE TypeAt(derefType(t).fields[Head(ip)].typ, Tail(ip))

\* Whether the request carries a value for a discovered entry: a query
\* parameter is supplied when it is present, a path or form parameter when
\* its lookup is not empty.
Supplied(entry) ==
    CASE entry.paramType = "query" -> ValuesOf(req.query, entry.paramName) # <<>>
      [] entry.paramType = "path" -> FirstOf(req.path, entry.paramName) # <<>>
      [] entry.paramType = "form" -> FirstOf(req.form, entry.paramName) # <<>>

\* Scalar, pointer or slice: everything but a struct that is bound through
\* its own fields.
IsLeafType(t) == t.kind # "struct" \/ t.tu

Prefilled == heap0 # <<Zero(Root)>>

----------------------------------------------------------------------------
(* C1 *)

\* C1: no parameter source is consulted while Parse is still discovering
\* or zeroing; when the second loop starts, before any source was
\* consulted, every discovered field holds its zero value; and in the
\* record of calls every discovered path was zeroed before the first
\* consultation.
C1_ZeroedBeforeSources ==
    /\ pc \in {"start", "zeroing"} => ~Consulted
    /\ (pc = "binding" /\ ~Consulted) =>
          \A k \in 1..Len(paths) :
              /\ paths[k].destValue.valid
              /\ Get(heap, paths[k].destValue) = Zero(paths[k].destValue.typ)
    /\ Consulted =>
          Cardinality({i \in 1..(FirstConsult - 1) : log[i].op = "zeroPath"}) = Len(paths)

\* A source was consulted for a destination with several discovered
\* fields that held values before the call.
C1_Witness ==
    /\ Consulted
    /\ Len(paths) >= 2
    /\ Prefilled
    /\ \E k \in 1..Len(paths) :
          /\ Reachable(heap0, paths[k].indexPath)
          /\ FieldVal(heap0, paths[k].indexPath) # Zero(paths[k].destValue.typ)

----------------------------------------------------------------------------
(* C2 *)

\* C2: after a Parse that returned nil, every discovered scalar, pointer
\* or slice field whose parameter the request does not supply holds the
\* zero value of its type, whatever it held before.
C2_UnsuppliedIsZero ==
    (pc = "done" /\ err = NoError) =>
        \A k \in 1..Len(paths) :
            (/\ ~Supplied(paths[k])
             /\ IsLeafType(TypeAt(Root, paths[k].indexPath))
             /\ Reachable(heap, paths[k].indexPath))
            => FieldVal(heap, paths[k].indexPath) = Zero(TypeAt(Root, paths[k].indexPath))

\* A field that held a value before the call and was not supplied is zero
\* after a successful Parse.
C2_Witness ==
    /\ pc = "done"
    /\ err = NoError
    /\ \E k \in 1..Len(paths) :
          /\ ~Supplied(paths[k])
          /\ IsLeafType(TypeAt(Root, paths[k].indexPath))
          /\ Reachable(heap0, paths[k].indexPath)
          /\ FieldVal(heap0, paths[k].indexPath) # Zero(TypeAt(Root, paths[k].indexPath))
          /\ Reachable(heap, paths[k].indexPath)
          /\ FieldVal(heap, paths[k].indexPath) = Zero(TypeAt(Root, paths[k].indexPath))

----------------------------------------------------------------------------
(* C3 *)

\* The index paths of the fields discovery visits in struct type t: its
\* fields and, through embedded structs and pointers to structs, theirs.
RECURSIVE Visited(_, _)
Visited(t, prefix) ==
    UNION {{Append(prefix, i)} \cup
           (IF t.fields[i].anonymous /\ derefType(t.fields[i].typ).kind = "struct"
            THEN Visited(derefType(t.fields[i].typ), Append(prefix, i))
            ELSE {}) : i \in 1..Len(t.fields)}

\* The declaration of the field at index path ip of struct type t.
RECURSIVE FieldDecl(_, _)
FieldDecl(t, ip) ==
    IF Len(ip) = 1 THEN t.fields[ip[1]]
    ELSE FieldDecl(derefType(t.fields[Head(ip)].typ), Tail(ip))

\* No tag, a tag under another key, a malformed tag, or unexported and not
\* embedded.
YieldsNoDescriptor(f) ==
    \/ ~f.exported /\ ~f.anonymous
    \/ /\ ~resolvePath(parser, f.tag).ok
       /\ ~resolveForm(parser, f.tag).ok
       /\ ~resolveQuery(parser, f.tag).ok

IsProperPrefix(x, y) == Len(x) < Len(y) /\ SubSeq(y, 1, Len(x)) = x

Discovered == findTaggedIndexPaths(parser, Root, <<>>, <<>>)

\* An embedded field through which a discovered field is reached.
LeadsToDiscovered(ip) ==
    \E k \in 1..Len(Discovered) : IsProperPrefix(ip, Discovered[k].indexPath)

\* A field inside a discovered (tagged) field.
InsideDiscovered(ip) ==
    \E k \in 1..Len(Discovered) : IsProperPrefix(Discovered[k].indexPath, ip)

Untouched(ip) ==
    Reachable(heap0, ip) =>
        /\ Reachable(heap, ip)
        /\ FieldVal(heap, ip) = FieldVal(heap0, ip)

\* C3 as stated: at every point of Parse, every visited field that yields
\* no tag descriptor holds the value it held before the call.
C3_Original ==
    \A ip \in Visited(Root, <<>>) :
        YieldsNoDescriptor(FieldDecl(Root, ip)) => Untouched(ip)

\* C3 amended: at every point of Parse, every visited field that yields no
\* tag descriptor, is not an embedded field leading to a discovered field
\* and does not lie inside a discovered field holds the value it held
\* before the call.
C3_UntaggedUnchanged ==
    \A ip \in Visited(Root, <<>>) :
        (/\ YieldsNoDescriptor(FieldDecl(Root, ip))
         /\ ~LeadsToDiscovered(ip)
         /\ ~InsideDiscovered(ip))
        => Untouched(ip)

\* Parse is over, it changed the destination, and a field without
\* descriptor that the amended claim covers held a value before the call.
C3_Witness ==
    /\ pc = "done"
    /\ heap # heap0
    /\ \E ip \in Visited(Root, <<>>) :
          /\ YieldsNoDescriptor(FieldDecl(Root, ip))
          /\ ~LeadsToDiscovered(ip)
          /\ ~InsideDiscovered(ip)
          /\ Reachable(heap0, ip)
          /\ FieldVal(heap0, ip) = StrV(Old)

----------------------------------------------------------------------------
(* Tags: destinations struct { F string <tag> } over a family of tags *)

correctKey == "key"
correctPrefix == <<"l", "o", "c", "a", "t", "i", "o", "n">>

\* Parser{ParamTagResolver: TagNameResolver(tagName), ...}
WithParamTagResolver(p, tagName) == [p EXCEPT !.tagName = tagName]

TagPieces ==
    {<<>>, queryTagValuePrefix, pathTagValuePrefix, formTagValuePrefix,
     correctPrefix, NameA, <<"Q", "u", "e", "r", "y">>}

RECURSIVE JoinEq(_)
JoinEq(parts) ==
    IF Len(parts) = 1 THEN parts[1]
    ELSE parts[1] \o <<"=">> \o JoinEq(Tail(parts))

TagValues == {JoinEq(ps) : ps \in SeqsUpTo(TagPieces, MaxTagParts) \ {<<>>}}

TagKeys == {defaultTagName, correctKey}

\* No tag, a tag under one key, and a tag under a key that follows a json
\* key or another param key.
FieldTags ==
    {NoTag}
    \cup {Tag(k, v) : k \in TagKeys, v \in TagValues}
    \cup {Tag("json", NameA) \o Tag(k, v) : k \in TagKeys, v \in TagValues}
    \cup {Tag(k, ModifierOf("query") \o <<"=">> \o NameB) \o Tag(k, v) :
             k \in TagKeys, v \in TagValues}

TaggedStruct(tg) == StructOf("tagged", <<Field("F", TRUE, FALSE, tg, String)>>)

TagScenarios ==
    {Scenario(WithParamTagResolver(WithPathParamFunc(DefaultParser), k),
              Request("POST", "urlencoded",
                      <<Pair(NameA, <<"1">>), Pair(NameB, <<"y">>)>>),
              TaggedStruct(tg), FALSE) :
        k \in TagKeys, tg \in FieldTags}

InitTag == \E sc \in TagScenarios : InitOf(sc)

SpecTag == InitTag /\ [][Next]_vars

----------------------------------------------------------------------------
(* C4 *)

Modifiers == {pathTagValuePrefix, formTagValuePrefix, queryTagValuePrefix, correctPrefix}

\* The value of the first key:"value" pair of tag tg under key, "" if none.
ValueUnder(tg, key) ==
    IF \E i \in 1..Len(tg) : tg[i].key = key
    THEN tg[CHOOSE i \in 1..Len(tg) :
                /\ tg[i].key = key
                /\ \A j \in 1..(i - 1) : tg[j].key # key].value
    ELSE <<>>

EqualSigns(v) == {i \in 1..Len(v) : v[i] = "="}

\* What the claim says resolveTagWithModifier returns.
Stated(tg, key, modifier) ==
    LET v == ValueUnder(tg, key)
        eq == CHOOSE i \in EqualSigns(v) : TRUE
    IN  IF /\ v # <<>>
           /\ Cardinality(EqualSigns(v)) = 1
           /\ SubSeq(v, 1, eq - 1) = modifier
        THEN [name |-> SubSeq(v, eq + 1, Len(v)), ok |-> TRUE]
        ELSE [name |-> <<>>, ok |-> FALSE]

KindOf(modifier) ==
    CASE modifier = pathTagValuePrefix -> "path"
      [] modifier = formTagValuePrefix -> "form"
      [] modifier = queryTagValuePrefix -> "query"
      [] OTHER -> "none"

\* C4: for every field tag and modifier, resolveTagWithModifier returns
\* (name, true) exactly when the value under the configured key is not
\* empty, holds exactly one '=' and the text before it is the modifier, name
\* being the text after the '='; otherwise it returns ("", false).  No
\* error comes of it: discovery registers the field under exactly the
\* source kinds whose modifier resolves, and Parse goes on without error.
C4_TagResolution ==
    \A i \in 1..Len(Root.fields) : \A m \in Modifiers :
        LET tg == Root.fields[i].tag
            want == Stated(tg, parser.tagName, m)
        IN  /\ resolveTagWithModifier(parser, tg, m) = want
            /\ (pc \in {"zeroing", "binding"} /\ idx = 0) => err = NoError
            /\ (pc # "start" /\ KindOf(m) # "none" /\ Root.fields[i].exported) =>
                  (want.ok <=>
                     \E k \in 1..Len(paths) :
                        /\ paths[k].indexPath = <<i>>
                        /\ paths[k].paramType = KindOf(m)
                        /\ paths[k].paramName = want.name)

\* Parse has bound a field whose tag, found under a configured key other
\* than the default and behind a json key, resolved to a parameter name.
C4_Witness ==
    /\ pc = "done"
    /\ err = NoError
    /\ parser.tagName = correctKey
    /\ Len(Root.fields[1].tag) = 2
    /\ Stated(Root.fields[1].tag, correctKey, queryTagValuePrefix)
          = [name |-> NameA, ok |-> TRUE]
    /\ Len(paths) = 1
    /\ FieldVal(heap, <<1>>) = StrV(<<"1">>)

----------------------------------------------------------------------------
(* C5 *)

\* The values the request carries for a discovered field in its source.
ValuesFor(entry) ==
    CASE entry.paramType = "query" -> ValuesOf(req.query, entry.paramName)
      [] entry.paramType = "form" -> ValuesOf(req.form, entry.paramName)
      [] entry.paramType = "path" -> ValuesOf(req.path, entry.paramName)

\* The type a destination has once the pointers in front of it are taken
\* away, a type whose address is a TextUnmarshaler being kept as it is.
RECURSIVE BehindPointers(_)
BehindPointers(t) ==
    IF t.tu \/ t.kind # "ptr" THEN t ELSE BehindPointers(t.elem[1])

NotASlice(t) == t.tu \/ t.kind # "slice"

TooManyMsg == "too many parameters unmarshaling, expected up to 1 value"

----------------------------------------------------------------------------
(* C6 *)

\* Value v, in memory h, is what text stands for in element type t.
CoercionOf(h, v, t, text) ==
    CASE t = String -> v = StrV(text)
      [] t = Prim("int8") ->
           /\ text # <<>>
           /\ v = IntV(FALSE, [i \in 1..Len(text) |-> DigitVal(text[i])])
      [] t = myComplicatedType -> v = StructV(<<StrV(<<"m", "y">> \o text)>>)
      [] t = PtrTo(String) ->
           /\ v.p > Len(heap0)
           /\ h[v.p] = StrV(text)
      [] OTHER -> FALSE

IsQuerySlice(entry) ==
    /\ entry.paramType = "query"
    /\ TypeAt(Root, entry.indexPath).kind = "slice"
    /\ ~TypeAt(Root, entry.indexPath).tu

\* C6: after a successful Parse a query-tagged slice field is nil when the
\* query holds no value under its name, whatever it held before, and is
\* otherwise a slice with one element per value, the i-th element being the
\* coercion of the i-th value.
C6_SliceInRequestOrder ==
    (pc = "done" /\ err = NoError) =>
        \A k \in 1..Len(paths) :
            IsQuerySlice(paths[k]) =>
                LET vs == ValuesFor(paths[k])
                    f == FieldVal(heap, paths[k].indexPath)
                    t == TypeAt(Root, paths[k].indexPath)
                IN  IF vs = <<>>
                    THEN f = Zero(t)
                    ELSE /\ f.p = 1
                         /\ Len(f.e) = Len(vs)
                         /\ \A i \in 1..Len(vs) :
                               CoercionOf(heap, f.e[i], t.elem[1], vs[i])

\* A destination that held a slice has taken two different values of the
\* query.
C6_Witness ==
    /\ pc = "done"
    /\ err = NoError
    /\ Prefilled
    /\ \E k \in 1..Len(paths) :
          /\ IsQuerySlice(paths[k])
          /\ Len(ValuesFor(paths[k])) = 2
          /\ ValuesFor(paths[k])[1] # ValuesFor(paths[k])[2]

----------------------------------------------------------------------------
(* Integers: destinations struct { F <integer kind> `param:"<kind>=a"` } and
   requests whose parameter a is a text at or next to a limit of the kind *)

\* x + 1 and x - 1 (x > 0) on magnitudes.
RECURSIVE MagInc(_)
MagInc(x) ==
    IF x = <<>> THEN <<1>>
    ELSE IF x[Len(x)] < 9 THEN [x EXCEPT ![Len(x)] = @ + 1]
    ELSE Append(MagInc(SubSeq(x, 1, Len(x) - 1)), 0)

RECURSIVE MagDec(_)
MagDec(x) ==
    IF x = <<1>> THEN <<>>
    ELSE IF x[Len(x)] > 0 THEN [x EXCEPT ![Len(x)] = @ - 1]
    ELSE Append(MagDec(SubSeq(x, 1, Len(x) - 1)), 9)

\* The decimal text of a magnitude.
MagText(x) == IF x = <<>> THEN <<"0">> ELSE [i \in 1..Len(x) |-> DigitChar(x[i])]

IntegerKinds == SignedKinds \cup UnsignedKinds

\* The magnitude of the least value of a signed kind, and the magnitude one
\* past the greatest value of any kind.
MinMag(kind, isz) == Pow2[Bits(kind, isz) - 1]
PastMaxMag(kind, isz) ==
    IF kind \in SignedKinds THEN Pow2[Bits(kind, isz) - 1] ELSE Pow2[Bits(kind, isz)]

MinText(kind, isz) ==
    IF kind \in SignedKinds THEN <<"-">> \o MagText(MinMag(kind, isz)) ELSE <<"0">>
MaxText(kind, isz) == MagText(MagDec(PastMaxMag(kind, isz)))
BelowMinText(kind, isz) ==
    IF kind \in SignedKinds THEN <<"-">> \o MagText(MagInc(MinMag(kind, isz)))
    ELSE <<"-", "1">>
AboveMaxText(kind, isz) == MagText(PastMaxMag(kind, isz))

\* Further texts: signs, leading zeros, no digits, a digit after the end of
\* the range.
OtherIntTexts ==
    {<<"0">>, <<"+", "1">>, <<"-", "0">>, <<"0", "0", "7">>, <<"x">>, <<"-">>,
     <<"1", "x">>, <<"9", "9", "9", "x">>}

IntTexts(kind, isz) ==
    {MinText(kind, isz), MaxText(kind, isz), BelowMinText(kind, isz),
     AboveMaxText(kind, isz)} \cup OtherIntTexts

IntSizes == {32, 64}

IntStruct(kind, source) ==
    StructOf("integers", <<Field("F", TRUE, FALSE, ParamTag(source, NameA), Prim(kind))>>)

InitInt ==
    \E kind \in IntegerKinds, isz \in IntSizes, source \in SourceKinds, pre \in BOOLEAN :
      \E text \in IntTexts(kind, isz) :
        /\ parser = WithPathParamFunc(DefaultParser)
        /\ req = Request("POST", "urlencoded", <<Pair(NameA, text)>>)
        /\ destTyp = PtrTo(IntStruct(kind, source))
        /\ intSize = isz
        /\ heap = InitialHeap(IntStruct(kind, source), pre)
        /\ heap0 = heap
        /\ pc = "start"
        /\ idx = 0
        /\ paths = <<>>
        /\ err = NoError
        /\ log = <<>>
        /\ valueReceiverResult = <<"o", "r", "i", "g">>
        /\ peer = NoCall
        /\ OnlyParse

SpecInt == InitInt /\ [][Next]_vars

----------------------------------------------------------------------------
(* C7 *)

\* The integer kind of the field F and the text the request carries for it.
KindOfF == Root.fields[1].typ.kind
TextOfF == req.query[1].value

IsIntegerCase ==
    /\ pc = "done"
    /\ Len(Root.fields) = 1
    /\ KindOfF \in IntegerKinds
    /\ Len(req.query) = 1

RangeError == err # NoError /\ ErrorIs(err, ErrRange) /\ ~ErrorIs(err, ErrSyntax)
SyntaxError == err # NoError /\ ErrorIs(err, ErrSyntax) /\ ~ErrorIs(err, ErrRange)

\* The least and the greatest value of the kind are bound as they are.
LimitsBound ==
    /\ TextOfF = MinText(KindOfF, intSize) =>
          /\ err = NoError
          /\ FieldVal(heap, <<1>>) =
                IF KindOfF \in SignedKinds
                THEN IntV(TRUE, MinMag(KindOfF, intSize))
                ELSE IntV(FALSE, <<>>)
    /\ TextOfF = MaxText(KindOfF, intSize) =>
          /\ err = NoError
          /\ FieldVal(heap, <<1>>) = IntV(FALSE, MagDec(PastMaxMag(KindOfF, intSize)))

\* C7 as stated: for every integer kind the texts of the least and of the
\* greatest value are bound exactly, and the texts of the values next
\* below and next above them fail with a range error that is no syntax
\* error.
C7_Original ==
    IsIntegerCase =>
        /\ LimitsBound
        /\ TextOfF = BelowMinText(KindOfF, intSize) => RangeError
        /\ TextOfF = AboveMaxText(KindOfF, intSize) => RangeError

\* C7 amended: for every integer kind the texts of the least and of the
\* greatest value are bound exactly and the text of the value next above
\* the greatest fails with a range error that is no syntax error; the text
\* of the value next below the least fails with such a range error for the
\* signed kinds and, being "-1", with a syntax error that is no range error
\* for the unsigned kinds.
C7_IntegerLimits ==
    IsIntegerCase =>
        /\ LimitsBound
        /\ TextOfF = AboveMaxText(KindOfF, intSize) => RangeError
        /\ TextOfF = BelowMinText(KindOfF, intSize) =>
              IF KindOfF \in SignedKinds THEN RangeError ELSE SyntaxError

\* On a platform with 32-bit int, Parse has refused the text of the value
\* next above the greatest int.
C7_Witness ==
    /\ IsIntegerCase
    /\ KindOfF = "int"
    /\ intSize = 32
    /\ TextOfF = <<"2", "1", "4", "7", "4", "8", "3", "6", "4", "8">>
    /\ TextOfF = AboveMaxText(KindOfF, intSize)
    /\ RangeError

----------------------------------------------------------------------------
(* C8 *)

\* Value v of type t is what UnmarshalText of t leaves for text, none of
\* the texts of the requests being a "shiny-" one.
TextUnmarshaled(v, t, text) ==
    CASE t.name = "myComplicatedType" -> v = StructV(<<StrV(<<"m", "y">> \o text)>>)
      [] t.name = "maybeShinyObject" -> v = StructV(<<BoolV(FALSE), StrV(text)>>)
      [] t.name = "valueReceiverUnmarshaler" ->
           /\ v = Zero(t)
           /\ valueReceiverResult = text
      [] t.name = "textList" -> v = SliceV(<<StrV(<<"m", "y">> \o text)>>)
      [] OTHER -> FALSE

\* Value v of type t, in memory h, is bound to text: every pointer on the
\* way was allocated during the call and what is behind them is the
\* coercion of text.
RECURSIVE BoundAs(_, _, _, _)
BoundAs(h, v, t, text) ==
    IF t.tu THEN TextUnmarshaled(v, t, text)
    ELSE IF t.kind = "ptr"
    THEN /\ v.p > Len(heap0)
         /\ v.p <= Len(h)
         /\ BoundAs(h, h[v.p], t.elem[1], text)
    ELSE CoercionOf(h, v, t, text)

PointerDepth(t) ==
    IF t.kind # "ptr" \/ t.tu THEN 0
    ELSE IF t.elem[1].kind # "ptr" \/ t.elem[1].tu THEN 1
    ELSE IF t.elem[1].elem[1].kind # "ptr" \/ t.elem[1].elem[1].tu THEN 2
    ELSE 3

IsPointerField(entry) ==
    /\ PointerDepth(TypeAt(Root, entry.indexPath)) \in {1, 2}
    /\ NotASlice(BehindPointers(TypeAt(Root, entry.indexPath)))

\* C8: after a successful Parse a tagged field that is a pointer of depth 1
\* or 2 is nil when no value was supplied for it; when one was, every
\* pointer level is non-nil and was allocated by the call, and the
\* innermost pointee is the coerced value.
C8_PointersAllocated ==
    (pc = "done" /\ err = NoError) =>
        \A k \in 1..Len(paths) :
            IsPointerField(paths[k]) =>
                IF Supplied(paths[k])
                THEN BoundAs(heap, FieldVal(heap, paths[k].indexPath),
                             TypeAt(Root, paths[k].indexPath), ValuesFor(paths[k])[1])
                ELSE FieldVal(heap, paths[k].indexPath).p = 0

\* A **string that pointed to a string before the call points, through two
\* new pointers, to the supplied text.
C8_Witness ==
    /\ pc = "done"
    /\ err = NoError
    /\ Prefilled
    /\ \E k \in 1..Len(paths) :
          /\ TypeAt(Root, paths[k].indexPath) = PtrTo(PtrTo(String))
          /\ Supplied(paths[k])
          /\ FieldVal(heap0, paths[k].indexPath).p # 0
          /\ heap[heap[FieldVal(heap, paths[k].indexPath).p].p] = StrV(<<"x">>)

----------------------------------------------------------------------------
(* C9 *)

\* The texts UnmarshalText was called with, in the order of the calls.
UnmarshalTextCalls ==
    LET calls == SelectSeq(log, LAMBDA e : e.op = "UnmarshalText")
    IN  [i \in 1..Len(calls) |-> calls[i].arg]

\* The field is, or is a pointer to, a destination whose address implements
\* encoding.TextUnmarshaler, and the request supplies one value for it.
IsUnmarshalerField(entry) ==
    /\ BehindPointers(TypeAt(Root, entry.indexPath)).tu
    /\ Supplied(entry)
    /\ entry.paramType = "query" => Len(ValuesFor(entry)) = 1

\* The field is a slice, bound from the query, of such destinations.
IsUnmarshalerSlice(entry) ==
    /\ IsQuerySlice(entry)
    /\ BehindPointers(TypeAt(Root, entry.indexPath).elem[1]).tu
    /\ Supplied(entry)

\* C9: a destination whose address implements encoding.TextUnmarshaler (a
\* field, the pointee of a field, an element of a slice) is bound by one
\* call of UnmarshalText with the supplied text and by nothing else: the
\* calls made are the supplied texts in their order, each destination holds
\* what UnmarshalText left, and a type that is also a slice is not bound
\* as a slice.
C9_TextUnmarshalerFirst ==
    pc = "done" =>
        \A k \in 1..Len(paths) :
            LET t == TypeAt(Root, paths[k].indexPath)
                f == FieldVal(heap, paths[k].indexPath)
                vs == ValuesFor(paths[k])
            IN  /\ IsUnmarshalerField(paths[k]) =>
                      /\ err = NoError
                      /\ UnmarshalTextCalls = <<vs[1]>>
                      /\ BoundAs(heap, f, t, vs[1])
                /\ IsUnmarshalerSlice(paths[k]) =>
                      /\ err = NoError
                      /\ UnmarshalTextCalls = vs
                      /\ Len(f.e) = Len(vs)
                      /\ \A i \in 1..Len(vs) : BoundAs(heap, f.e[i], t.elem[1], vs[i])

\* A named slice type whose address implements the interface was bound by
\* its UnmarshalText from the one value of the query.
C9_Witness ==
    /\ pc = "done"
    /\ err = NoError
    /\ UnmarshalTextCalls = <<(<<"x">>)>>
    /\ \E k \in 1..Len(paths) :
          /\ TypeAt(Root, paths[k].indexPath) = textList
          /\ paths[k].paramType = "query"
          /\ IsUnmarshalerField(paths[k])

----------------------------------------------------------------------------
(* C10 *)

\* The embedded fields on the way to the field at index path ip.
Containers(ip) == {SubSeq(ip, 1, n) : n \in 1..(Len(ip) - 1)}

\* An embedded pointer on the way was nil before the call.
NilBefore(q) ==
    TypeAt(Root, q).kind = "ptr" =>
        \/ ~Reachable(heap0, q)
        \/ FieldVal(heap0, q).p = 0

IsNested(ip) ==
    /\ Len(ip) \in {2, 3}
    /\ \A q \in Containers(ip) : NilBefore(q)

\* C10: a tagged field inside an embedded struct or an embedded pointer to
\* a struct that was nil before the call, one or two levels down, is
\* discovered, and after a successful Parse of a request that supplies its
\* parameter it is reachable from the destination and holds the coerced
\* value.
C10_EmbeddedBound ==
    /\ pc # "start" =>
          \A ip \in Visited(Root, <<>>) :
              (IsNested(ip) /\ ~YieldsNoDescriptor(FieldDecl(Root, ip))) =>
                  \E k \in 1..Len(paths) : paths[k].indexPath = ip
    /\ (pc = "done" /\ err = NoError) =>
          \A k \in 1..Len(paths) :
              (IsNested(paths[k].indexPath) /\ Supplied(paths[k])) =>
                  /\ Reachable(heap, paths[k].indexPath)
                  /\ BoundAs(heap, FieldVal(heap, paths[k].indexPath),
                             TypeAt(Root, paths[k].indexPath), ValuesFor(paths[k])[1])

----------------------------------------------------------------------------
(* Failures: parsers with and without their lookup functions, requests of
   every method and body, destinations of two tagged fields of which the
   first may be one that cannot be bound, and destinations that are no
   pointer to a struct *)

\* Parser{ParamTagResolver: TagNameResolver("param")}: no lookup functions.
ParserLiteral == [tagName |-> defaultTagName, hasPathParamFunc |-> FALSE,
                  hasFormParamFunc |-> FALSE]

Parsers ==
    {DefaultParser, WithPathParamFunc(DefaultParser), ParserLiteral,
     WithPathParamFunc(ParserLiteral)}

Methods == {"GET", "POST", "PUT", "PATCH"}
Bodies == {"urlencoded", "multipart", "badmultipart", "badform"}

\* struct { F t `param:"k1=a"`; G string `param:"k2=b"` }
TwoFields(t, k1, k2) ==
    StructOf("twoFields", <<Field("F", TRUE, FALSE, ParamTag(k1, NameA), t),
                            Field("G", TRUE, FALSE, ParamTag(k2, NameB), String)>>)

\* struct { G string `param:"query=b"`; *embeddedStruct }
taggedThenUnexportedPtr ==
    StructOf("taggedThenUnexportedPtr",
             <<Field("G", TRUE, FALSE, ParamTag("query", NameB), String),
               Field("embeddedStruct", FALSE, TRUE, NoTag, PtrTo(embeddedStruct))>>)

\* struct { *embeddedStruct; G string `param:"query=b"` }
unexportedPtrThenTagged ==
    StructOf("unexportedPtrThenTagged",
             <<Field("embeddedStruct", FALSE, TRUE, NoTag, PtrTo(embeddedStruct)),
               Field("G", TRUE, FALSE, ParamTag("query", NameB), String)>>)

FirstFieldTypes ==
    {String, Prim("int8"), SliceOf(String), SliceOf(SliceOf(String)), textList,
     SliceOf(textList)}

FailingTypes ==
    {TwoFields(t, k1, k2) : t \in FirstFieldTypes, k1 \in SourceKinds, k2 \in SourceKinds}
    \cup {taggedThenUnexportedPtr, unexportedPtrThenTagged, embeddingUnexportedPtr}

FailingRequests ==
    {Request(m, b, as \o bs) :
        m \in Methods, b \in Bodies,
        as \in {<<>>, <<Pair(NameA, <<"1">>)>>, <<Pair(NameA, <<"x">>)>>},
        bs \in {<<>>, <<Pair(NameB, <<"y">>)>>}}

FailScenarios ==
    {Scenario(p, r, t, pre) :
        p \in Parsers, r \in FailingRequests, t \in FailingTypes, pre \in BOOLEAN}

\* Destinations that are no pointer to a struct: the type of dest and the
\* memory it refers to.  A struct passed by value, a pointer to a string, a
\* pointer to a pointer to a struct, an untyped nil, a nil pointer to a
\* struct.
Untyped == [Prim("invalid") EXCEPT !.name = ""]

OddDestinations ==
    {[typ |-> TwoFields(String, "query", "query"),
      h |-> InitialHeap(TwoFields(String, "query", "query"), TRUE)],
     [typ |-> PtrTo(String), h |-> <<StrV(Old)>>],
     [typ |-> PtrTo(PtrTo(TwoFields(String, "query", "query"))),
      h |-> <<PtrV(2), InitialHeap(TwoFields(String, "query", "query"), TRUE)[1]>>],
     [typ |-> Untyped, h |-> <<>>],
     [typ |-> PtrTo(TwoFields(String, "query", "query")), h |-> <<>>]}

InitOdd ==
    \E p \in Parsers, r \in FailingRequests, d \in OddDestinations :
        /\ parser = p
        /\ req = r
        /\ destTyp = d.typ
        /\ intSize = 64
        /\ heap = d.h
        /\ heap0 = heap
        /\ pc = "start"
        /\ idx = 0
        /\ paths = <<>>
        /\ err = NoError
        /\ log = <<>>
        /\ valueReceiverResult = <<"o", "r", "i", "g">>
        /\ peer = NoCall
        /\ OnlyParse

InitFail == (\E sc \in FailScenarios : InitOf(sc)) \/ InitOdd

SpecFail == InitFail /\ [][Next]_vars

----------------------------------------------------------------------------
(* C11 *)

\* dest is a pointer, not nil, to a struct.
IsStructDest ==
    /\ destTyp.kind = "ptr"
    /\ heap0 # <<>>
    /\ destTyp.elem[1].kind = "struct"

\* On the way to the field at ip lies an embedded unexported pointer that
\* was nil when Parse was called.
ThroughNilUnexportedPtr(ip) ==
    \E q \in Containers(ip) :
        /\ ~FieldDecl(Root, q).exported
        /\ FieldDecl(Root, q).anonymous
        /\ FieldDecl(Root, q).typ.kind = "ptr"
        /\ Reachable(heap0, q)
        /\ FieldVal(heap0, q).p = 0

HasBlockedPath ==
    /\ IsStructDest
    /\ \E k \in 1..Len(Discovered) : ThroughNilUnexportedPtr(Discovered[k].indexPath)

\* Every discovered field that can be reached holds its zero value or what
\* it held before the call.
NothingBound ==
    \A k \in 1..Len(Discovered) :
        Reachable(heap, Discovered[k].indexPath) =>
            \/ FieldVal(heap, Discovered[k].indexPath)
                  = Zero(TypeAt(Root, Discovered[k].indexPath))
            \/ /\ Reachable(heap0, Discovered[k].indexPath)
               /\ FieldVal(heap, Discovered[k].indexPath)
                     = FieldVal(heap0, Discovered[k].indexPath)

\* C11: when the way to a tagged field leads through an embedded
\* unexported pointer to a struct that is nil, Parse never gets to its
\* binding loop: it returns, from the zeroing loop, the error that names
\* the unexported struct type, having consulted no parameter source and
\* bound no field.
C11_UnexportedPointerError ==
    HasBlockedPath =>
        /\ pc \notin {"binding", "panic"}
        /\ ~Consulted
        /\ NothingBound
        /\ pc = "done" =>
              err = E("cannot set embedded pointer to unexported struct", <<>>,
                      "embeddedStruct")

\* Parse has returned the error for a destination whose first field is
\* tagged and supplied by the request and whose second field is the
\* embedded pointer.
C11_Witness ==
    /\ pc = "done"
    /\ HasBlockedPath
    /\ Root = taggedThenUnexportedPtr
    /\ Len(log) = 2
    /\ \A i \in 1..Len(log) : log[i].op = "zeroPath"
    /\ ValuesOf(req.query, NameB) # <<>>
    /\ err # NoError

----------------------------------------------------------------------------
(* C12 *)

\* On the way to the field at ip lies an unexported embedded field.
ThroughUnexported(ip) ==
    \E q \in Containers(ip) : ~FieldDecl(Root, q).exported

IsDiscovered(ip) == \E k \in 1..Len(paths) : paths[k].indexPath = ip

----------------------------------------------------------------------------
(* C13 *)

\* dest is no pointer (a value, or the untyped nil) or a pointer to
\* something that is no struct.
NotPointerToStruct == destTyp.kind # "ptr" \/ destTyp.elem[1].kind # "struct"

\* C13: when dest is not a pointer, or is a pointer to something other
\* than a struct, the first step of Parse returns an error, and what dest
\* refers to is never changed and no parameter source consulted.
C13_ShapeError ==
    NotPointerToStruct =>
        /\ pc \in {"start", "done"}
        /\ pc = "done" => err # NoError
        /\ heap = heap0
        /\ log = <<>>

----------------------------------------------------------------------------
(* C14 *)

PathFuncMsg == "PathParamFunc to get value of path parameter is not defined"

IsPathFuncError(e) == Len(e) = 1 /\ e[1].msg = PathFuncMsg

\* A pass of the binding loop is about to run.
Binding == pc = "binding" /\ idx <= Len(paths)

\* C14: with a Parser whose PathParamFunc is nil, a pass of the binding
\* loop returns the error that PathParamFunc is not defined, naming the
\* parameter and consulting nothing, when its field is path-tagged, and
\* does not return that error when it is not; no other step returns it, and
\* a destination without a path-tagged field never meets it.
C14_PathFuncNotDefined ==
    /\ [](IsStructDest =>
            /\ (\A k \in 1..Len(Discovered) : Discovered[k].paramType # "path") =>
                  ~IsPathFuncError(err)
            /\ parser.hasPathParamFunc => ~IsPathFuncError(err))
    /\ [][(Binding /\ ~parser.hasPathParamFunc) =>
             IF paths[idx].paramType = "path"
             THEN /\ pc' = "done"
                  /\ err' = E(PathFuncMsg, paths[idx].paramName, "")
                  /\ log' = log
                  /\ heap' = heap
             ELSE ~IsPathFuncError(err')]_vars
    /\ [][~Binding => ~IsPathFuncError(err')]_vars

\* Parse has bound its first field from the query and returned the error
\* for the second, path-tagged one, for which the request has no value.
C14_Witness ==
    /\ pc = "done"
    /\ IsPathFuncError(err)
    /\ idx = 2
    /\ paths[2].paramType = "path"
    /\ ValuesFor(paths[2]) = <<>>
    /\ paths[1].paramType = "query"
    /\ FieldVal(heap, <<1>>) = StrV(<<"x">>)

----------------------------------------------------------------------------
(* C15 *)

HasFormField == \E k \in 1..Len(paths) : paths[k].paramType = "form"

\* C15: a Parse that binds a form-tagged field succeeds only on a POST, PUT
\* or PATCH request whose body could be parsed; the form is parsed as
\* multipart first and as a URL-encoded form only after that and only when
\* the body is not multipart.
C15_FormParsing ==
    IsStructDest =>
        /\ (pc = "done" /\ err = NoError /\ HasFormField) =>
              /\ req.method \in FormMethods
              /\ req.body \notin {"badmultipart", "badform"}
        /\ \A i \in 1..Len(log) :
              log[i].op = "ParseForm" =>
                  /\ i > 1
                  /\ log[i - 1].op = "ParseMultipartForm"
                  /\ req.body \notin {"multipart", "badmultipart"}

----------------------------------------------------------------------------
(* C16 *)

\* What a source of the given kind is asked with.
LookupOp(kind) ==
    CASE kind = "path" -> "PathParamFunc"
      [] kind = "form" -> "FormParamFunc"
      [] kind = "query" -> "Query"

UnmarshalingMsg(kind) ==
    CASE kind = "path" -> "unmarshaling path parameter"
      [] kind = "form" -> "unmarshaling form parameter"
      [] kind = "query" -> "unmarshaling query parameter"

CoercionMsgs == {"parsing into field of type", "unsupported field type",
                 "unmarshaling %dth element",
                 "too many parameters unmarshaling, expected up to 1 value"}

\* The error of a value that could not be coerced.
IsCoercionError(e) == \E i \in 1..Len(e) : e[i].msg \in CoercionMsgs

\* Parse has returned an error from one of its two loops.
FailedInLoop == IsStructDest /\ pc = "done" /\ err # NoError

\* C16: the first error of a zeroing or binding pass ends Parse.  The pass
\* that fails is the last step taken and its error is the one returned;
\* an error of coercing a value is wrapped with the kind of the source and
\* the name of the parameter; the fields of the entries after the failing
\* one are not bound, and every lookup made belongs to the failing entry
\* or to one before it (to none when a zeroing pass failed).
C16_FirstErrorEnds ==
    /\ [](FailedInLoop =>
            /\ idx \in 1..Len(paths)
            /\ \A k \in (idx + 1)..Len(paths) :
                  Reachable(heap, paths[k].indexPath) =>
                      FieldVal(heap, paths[k].indexPath)
                         \in {Zero(TypeAt(Root, paths[k].indexPath)),
                              FieldVal(heap0, paths[k].indexPath)}
            /\ \A i \in 1..Len(log) :
                  log[i].op \in {"PathParamFunc", "FormParamFunc", "Query"} =>
                      \E k \in 1..idx :
                          /\ log[i].op = LookupOp(paths[k].paramType)
                          /\ log[i].arg = paths[k].paramName
            /\ log[Len(log)].op = "zeroPath" => ~Consulted
            /\ IsCoercionError(err) =>
                  /\ err[1] = E(UnmarshalingMsg(paths[idx].paramType),
                                paths[idx].paramName, "")[1]
                  /\ \A i \in 2..Len(err) : err[i].msg # err[1].msg)
    /\ [][pc \notin {"done", "panic"}]_vars
    /\ [][(pc = "zeroing" /\ zeroPath(heap, RootValue(Root), paths[idx]).err # NoError)
             => (pc' \in {"done", "panic"}
                 /\ err' = zeroPath(heap, RootValue(Root), paths[idx]).err)]_vars
    /\ [][(Binding /\ parseParam(World(heap, log, valueReceiverResult), parser, req,
                                 paths[idx], intSize).err # NoError)
             => (pc' \in {"done", "panic"}
                 /\ err' = parseParam(World(heap, log, valueReceiverResult), parser, req,
                                      paths[idx], intSize).err)]_vars

\* The first of two query fields could not be coerced: Parse has returned
\* the wrapped error, and the second field, which the request has a value
\* for and which held a value before the call, holds its zero value and
\* was never looked up.
C16_Witness ==
    /\ FailedInLoop
    /\ idx = 1
    /\ Len(paths) = 2
    /\ paths[1].paramType = "query"
    /\ paths[2].paramType = "query"
    /\ ErrorIs(err, "parsing into field of type")
    /\ err[1].msg = "unmarshaling query parameter"
    /\ ValuesFor(paths[2]) # <<>>
    /\ FieldVal(heap0, <<2>>) = StrV(Old)
    /\ FieldVal(heap, <<2>>) = StrV(<<>>)
    /\ \A i \in 1..Len(log) : log[i].arg # NameB \/ log[i].op = "zeroPath"

----------------------------------------------------------------------------
(* C17 *)

\* C17: Parse never panics, whatever the destination, the request and
\* the Parser are: every failure is an error that Parse returns.
C17_NeverPanics == pc # "panic"

----------------------------------------------------------------------------
(* C18 *)

IsSlice(t) == t.kind = "slice"

\* A slice type whose address does not implement encoding.TextUnmarshaler.
PlainSlice(t) == t.kind = "slice" /\ ~t.tu

TypeOfEntry(k) == TypeAt(Root, paths[k].indexPath)

\* The source of entry k was asked for its parameter.
LookedUp(k) ==
    \E i \in 1..Len(log) :
        /\ log[i].op = LookupOp(paths[k].paramType)
        /\ log[i].arg = paths[k].paramName

UnsupportedAt(k) ==
    Wrap(UnmarshalingMsg(paths[k].paramType), paths[k].paramName,
         E("unsupported field type", <<>>, TypeOfEntry(k).name))

UnsupportedElemAt(k) ==
    Wrap(UnmarshalingMsg(paths[k].paramType), paths[k].paramName,
         Wrap("unmarshaling %dth element", <<"0">>,
              E("unsupported field type", <<>>, TypeOfEntry(k).elem[1].name)))

\* Once the source of entry k has returned a value, Parse has returned
\* error e and the field holds its zero value.
Rejected(k, e) ==
    (LookedUp(k) /\ Supplied(paths[k])) =>
        /\ pc = "done"
        /\ err = e
        /\ FieldVal(heap, paths[k].indexPath) = Zero(TypeOfEntry(k))

\* The field of entry k holds its zero value or what it held before.
NeverFilled(k) ==
    FieldVal(heap, paths[k].indexPath)
        \in {Zero(TypeOfEntry(k)), FieldVal(heap0, paths[k].indexPath)}

\* C18 as stated: a path- or form-tagged field of slice type is never
\* filled, and a value returned for it makes Parse return the error
\* "unsupported field type"; a query-tagged slice whose elements are slices
\* is rejected with that error too.
C18_Original ==
    (IsStructDest /\ pc # "start") =>
        \A k \in 1..Len(paths) :
            /\ (IsSlice(TypeOfEntry(k)) /\ paths[k].paramType \in {"path", "form"}) =>
                  /\ Rejected(k, UnsupportedAt(k))
                  /\ NeverFilled(k)
            /\ (IsSlice(TypeOfEntry(k)) /\ paths[k].paramType = "query"
                    /\ IsSlice(TypeOfEntry(k).elem[1])) =>
                  Rejected(k, UnsupportedElemAt(k))

\* C18 amended: the above holds of slice types whose address does not
\* implement encoding.TextUnmarshaler, that check coming first in every
\* coercer.  A slice type that implements it is bound by UnmarshalText
\* from a path, form or query value, and a query-tagged slice of such
\* slices is filled element by element.
C18_SlicesOnlyFromQuery ==
    (IsStructDest /\ pc # "start") =>
        \A k \in 1..Len(paths) :
            /\ (PlainSlice(TypeOfEntry(k)) /\ paths[k].paramType \in {"path", "form"}) =>
                  /\ Rejected(k, UnsupportedAt(k))
                  /\ NeverFilled(k)
            /\ (PlainSlice(TypeOfEntry(k)) /\ paths[k].paramType = "query"
                    /\ PlainSlice(TypeOfEntry(k).elem[1])) =>
                  Rejected(k, UnsupportedElemAt(k))
            /\ (pc = "done" /\ err = NoError /\ Supplied(paths[k])) =>
                  /\ (IsSlice(TypeOfEntry(k)) /\ TypeOfEntry(k).tu) =>
                        TextUnmarshaled(FieldVal(heap, paths[k].indexPath),
                                        TypeOfEntry(k), ValuesFor(paths[k])[1])
                  /\ (PlainSlice(TypeOfEntry(k)) /\ paths[k].paramType = "query"
                          /\ IsSlice(TypeOfEntry(k).elem[1])
                          /\ TypeOfEntry(k).elem[1].tu) =>
                        /\ Len(FieldVal(heap, paths[k].indexPath).e) = 1
                        /\ TextUnmarshaled(FieldVal(heap, paths[k].indexPath).e[1],
                                           TypeOfEntry(k).elem[1],
                                           ValuesFor(paths[k])[1])

\* A POST request carries a form value for a field of type []string:
\* FormParamFunc was asked, and Parse has returned the error.
C18_Witness ==
    /\ IsStructDest
    /\ pc = "done"
    /\ Len(paths) = 2
    /\ TypeOfEntry(1) = SliceOf(String)
    /\ paths[1].paramType = "form"
    /\ req.method = "POST"
    /\ LookedUp(1)
    /\ Supplied(paths[1])
    /\ err = UnsupportedAt(1)

----------------------------------------------------------------------------
(* Two concurrent calls of Parse *)

\* Everything a call of Parse works on is its arguments, its locals (v,
\* fieldIndexPaths, the loop variables, err) and the memory of its own
\* destination; the Parser is passed by value and may be the same for both
\* calls.  ov records whether the two calls have been inside their loops at
\* the same time.
Locals(id, ov) ==
    [id |-> id, overlapped |-> ov, req |-> req, destTyp |-> destTyp, heap |-> heap,
     heap0 |-> heap0, pc |-> pc, idx |-> idx, paths |-> paths, err |-> err, log |-> log]

InLoops(at) == at \in {"zeroing", "binding"}

\* Mutant: the error is kept in one place for all calls.
resumedSharingErr(o) == [o EXCEPT !.err = err]

\* What a call finds when it goes on: the locals it had.
resumed(o) == o

resume(o) ==
    /\ req' = o.req
    /\ destTyp' = o.destTyp
    /\ heap' = o.heap
    /\ heap0' = o.heap0
    /\ pc' = o.pc
    /\ idx' = o.idx
    /\ paths' = o.paths
    /\ err' = o.err
    /\ log' = o.log

\* The scheduler takes the processor from one call and gives it to the
\* other, between two steps of Parse.
Switch ==
    /\ peer.id # 0
    /\ peer' = Locals(3 - peer.id, peer.overlapped \/ (InLoops(pc) /\ InLoops(peer.pc)))
    /\ resume(resumed(peer))
    /\ UNCHANGED <<parser, intSize, valueReceiverResult, outsideParse>>

NextPair == ParseStart \/ ZeroStep \/ BindStep \/ ParseReturn \/ Switch

PairTypes ==
    {TwoFields(String, "query", "query"),
     TwoFields(Prim("int8"), "path", "query"),
     TwoFields(PtrTo(String), "query", "form"),
     TwoFields(valueReceiverUnmarshaler, "query", "path"),
     TwoFields(SliceOf(String), "query", "query"),
     taggedThenUnexportedPtr}

PairRequests ==
    {Request("POST", "urlencoded", as \o <<Pair(NameB, <<"y">>)>>) :
        as \in {<<>>, <<Pair(NameA, <<"1">>)>>, <<Pair(NameA, <<"x">>)>>}}

PairCalls == {[r |-> r, t |-> t] : r \in PairRequests, t \in PairTypes}

InitPair ==
    \E p \in {DefaultParser, WithPathParamFunc(DefaultParser)},
       c1 \in PairCalls, c2 \in PairCalls :
        /\ parser = p
        /\ req = c1.r
        /\ destTyp = PtrTo(c1.t)
        /\ intSize = 64
        /\ heap = InitialHeap(c1.t, TRUE)
        /\ heap0 = heap
        /\ pc = "start"
        /\ idx = 0
        /\ paths = <<>>
        /\ err = NoError
        /\ log = <<>>
        /\ valueReceiverResult = <<"o", "r", "i", "g">>
        /\ peer = [id |-> 2, overlapped |-> FALSE, req |-> c2.r, destTyp |-> PtrTo(c2.t),
                   heap |-> InitialHeap(c2.t, TRUE), heap0 |-> InitialHeap(c2.t, TRUE),
                   pc |-> "start", idx |-> 0, paths |-> <<>>, err |-> NoError,
                   log |-> <<>>]
        /\ OnlyParse

SpecPair == InitPair /\ [][NextPair]_vars

\* Parse as a function of its arguments and of the memory of its
\* destination, which is what a call that runs alone from its first step to
\* its return computes: the error, and the memory it leaves.
RECURSIVE zeroLoop(_, _, _, _)
zeroLoopNext(r, root, ps, i) ==
    IF r.err # NoError THEN [h |-> r.h, paths |-> ps, err |-> r.err]
    ELSE zeroLoop(r.h, root, [ps EXCEPT ![i].destValue = r.destValue], i + 1)

zeroLoop(h, root, ps, i) ==
    IF i > Len(ps) THEN [h |-> h, paths |-> ps, err |-> NoError]
    ELSE zeroLoopNext(zeroPath(h, root, ps[i]), root, ps, i)

RECURSIVE bindLoop(_, _, _, _, _, _)
bindLoopNext(x, p, r, ps, i, isz) ==
    IF x.err # NoError THEN [h |-> x.w.h, err |-> x.err]
    ELSE bindLoop(x.w, p, r, ps, i + 1, isz)

bindLoop(w, p, r, ps, i, isz) ==
    IF i > Len(ps) THEN [h |-> w.h, err |-> NoError]
    ELSE bindLoopNext(parseParam(w, p, r, ps[i], isz), p, r, ps, i, isz)

bindAfterZero(z, p, r, isz) ==
    IF z.err # NoError THEN [h |-> z.h, err |-> z.err]
    ELSE bindLoop(World(z.h, <<>>, <<>>), p, r, z.paths, 1, isz)

ParseAlone(p, r, typ, h, isz) ==
    IF typ.kind = "invalid" \/ (typ.kind = "ptr" /\ h = <<>>)
    THEN [h |-> h, err |-> Panic("reflect: call of reflect.Value.Type on zero Value")]
    ELSE IF typ.kind # "ptr"
    THEN [h |-> h, err |-> E("cannot set non-pointer value of type", <<>>, typ.name)]
    ELSE IF typ.elem[1].kind # "struct"
    THEN [h |-> h, err |-> E("can only parse into struct, but got", <<>>,
                             typ.elem[1].name)]
    ELSE bindAfterZero(zeroLoop(h, RootValue(typ.elem[1]),
                                findTaggedIndexPaths(p, typ.elem[1], <<>>, <<>>), 1),
                       p, r, isz)

----------------------------------------------------------------------------
(* C19 *)

Returned(c) == c.pc \in {"done", "panic"}

SameOutcome(out, c) == out.err = c.err /\ out.h = c.heap

\* Call c, if it is over, has returned the error and left the memory of
\* its destination as it does when it runs alone.
AsAlone(c) ==
    Returned(c) => SameOutcome(ParseAlone(parser, c.req, c.destTyp, c.heap0, intSize), c)

\* C19: of two calls of Parse that run concurrently, with one Parser, on a
\* request and a destination each, either returns, however their steps
\* interleave, the error and leaves its destination in the state that it
\* does when it runs with no other call in between.
C19_NoInterference ==
    peer.id # 0 => (AsAlone(Locals(0, FALSE)) /\ AsAlone(peer))

\* Both calls are over, they were inside their loops at the same time, one
\* has returned an error for its first field and the other has bound both
\* of its fields.
C19_Witness ==
    /\ peer.id # 0
    /\ peer.overlapped
    /\ pc = "done"
    /\ peer.pc = "done"
    /\ err = NoError
    /\ FieldVal(heap, <<1>>) # FieldVal(heap0, <<1>>)
    /\ FieldVal(heap, <<2>>) = StrV(<<"y">>)
    /\ ErrorIs(peer.err, "parsing into field of type")

----------------------------------------------------------------------------
(* signature: handlers built by WrapHandler and its relatives *)

parseVars == <<parser, req, destTyp, intSize, heap, heap0, pc, idx, paths, err, log,
               valueReceiverResult, peer>>

\* No call of Parse runs.
NoParse ==
    /\ parser = DefaultParser
    /\ req = Request("GET", "urlencoded", <<>>)
    /\ destTyp = Untyped
    /\ intSize = 64
    /\ heap = <<>>
    /\ heap0 = <<>>
    /\ pc = "done"
    /\ idx = 0
    /\ paths = <<>>
    /\ err = NoError
    /\ log = <<>>
    /\ valueReceiverResult = <<"o", "r", "i", "g">>
    /\ peer = NoCall

ErrInputGet == "parsing input"
ErrInnerHandler == "inner handler"
ErrResponseMarshal == "marshaling response"

Nil == "nil"
NoBody == "http.NoBody"

\* fmt.Errorf("%w into type %T: %w", ErrInputGet, target, innerError)
inputErrorWithType(target, innerError) == E(ErrInputGet, <<>>, "TInput") \o innerError

\* fmt.Errorf with ErrResponseMarshal and innerError, both under %w:
\* "without response object" for a nil src, "from type %T" otherwise
responseErrorWithType(src, innerError) ==
    IF src = Nil
    THEN E(ErrResponseMarshal, <<>>, "") \o innerError
    ELSE E(ErrResponseMarshal, <<>>, "TResponse") \o innerError

\* fmt.Errorf("%w: %w", ErrInnerHandler, innerError)
wrapInnerHandlerError(innerError) == E(ErrInnerHandler, <<>>, "") \o innerError

WrapKinds == {"WrapHandler", "WrapHandlerResponse", "WrapHandlerInput", "WrapHandlerError"}

\* The inner handler takes a TInput / returns a TResponse.
TakesInput(k) == k \in {"WrapHandler", "WrapHandlerInput"}
GivesResponse(k) == k \in {"WrapHandler", "WrapHandlerResponse"}

\* What the three functions that the handler calls may do: the errors they
\* return (<<>> is nil), what inputGetter stores in input, what the inner
\* handler returns as its response.
\* An inner handler or a marshaler may return an error that is, or wraps,
\* one of the exported errors of the package.
StepResults ==
    {NoError} \cup {E(c, <<>>, "") : c \in {"io.EOF", "not found", ErrInputGet}}
Inputs == {"input1", "input2"}
Responses == {"response1", "response2"}

Call(fn, arg, ret) == [fn |-> fn, arg |-> arg, ret |-> ret]

\* Mutant: the handler goes on after a step that returned an error.
afterStepGoesOn(e, next) == next

\* if err != nil { wrapper.errorHandler(...); return }
afterStep(e, next) == IF e # NoError THEN "errorHandler" ELSE next

\* The src that responseMarshaler is called with.
marshaled(k, resp) == IF GivesResponse(k) THEN resp ELSE NoBody

StatusOK == 200
StatusNoContent == 204
StatusBadRequest == 400
StatusInternalServerError == 500

\* The status code a responseMarshaler that writes the header gives it, as
\* DefaultResponseMarshal does: 204 for http.NoBody, 200 otherwise.  The
\* header is written before the response is encoded, so that a marshaler
\* may return an error with the header written.
DefaultStatus(src) == IF src = NoBody THEN StatusNoContent ELSE StatusOK

\* The status codes the two error handlers of the package call
\* w.WriteHeader with (through WriteErrorResponse).
AlwaysInternalErrorHandle(e) == StatusInternalServerError

\* Mutant: the error is not looked at.
InputGetErrorHandleBlind(e) == StatusInternalServerError

InputGetErrorHandle(e) ==
    IF ErrorIs(e, ErrInputGet) THEN StatusBadRequest ELSE AlwaysInternalErrorHandle(e)

ErrorHandlers == {"InputGetErrorHandle", "AlwaysInternalErrorHandle"}

\* The status of the response: the code of the first call of WriteHeader
\* (http.ResponseWriter ignores the later ones), 200 if there was none.
ResponseStatus == IF headers = <<>> THEN StatusOK ELSE headers[1]

\* err := wrapper.inputGetter(r, &input)
CallInputGetter ==
    /\ hpc = "inputGetter"
    /\ \E filled \in Inputs, e \in StepResults :
          /\ input' = filled
          /\ invoked' = Append(invoked, Call("inputGetter", "&input", e))
          /\ herr' = IF e # NoError THEN inputErrorWithType(filled, e) ELSE herr
          /\ hpc' = afterStep(e, "handler")
    /\ UNCHANGED <<wrapKind, response, errorHandler, headers, parseVars, outsideWrap>>

\* response, err := handler(w, r, input), or one of its three shorter forms
CallHandler ==
    /\ hpc = "handler"
    /\ \E resp \in Responses, e \in StepResults :
          /\ response' = IF GivesResponse(wrapKind) THEN resp ELSE response
          /\ invoked' = Append(invoked, Call("handler",
                                            IF TakesInput(wrapKind) THEN input ELSE "", e))
          /\ herr' = IF e # NoError THEN wrapInnerHandlerError(e) ELSE herr
          /\ hpc' = afterStep(e, "responseMarshaler")
    /\ UNCHANGED <<wrapKind, input, errorHandler, headers, parseVars, outsideWrap>>

\* err = wrapper.responseMarshaler(w, r, response), or with http.NoBody
CallResponseMarshaler ==
    /\ hpc = "responseMarshaler"
    /\ \E e \in StepResults :
          /\ invoked' = Append(invoked, Call("responseMarshaler",
                                            marshaled(wrapKind, response), e))
          /\ herr' = IF e # NoError
                     THEN responseErrorWithType(IF GivesResponse(wrapKind)
                                                THEN response ELSE Nil, e)
                     ELSE herr
          /\ hpc' = afterStep(e, "returned")
    /\ \E wrote \in BOOLEAN :
          headers' = IF wrote
                     THEN Append(headers, DefaultStatus(marshaled(wrapKind, response)))
                     ELSE headers
    /\ UNCHANGED <<wrapKind, input, response, errorHandler, parseVars, outsideWrap>>

\* wrapper.errorHandler(w, r, ...); return
CallErrorHandler ==
    /\ hpc = "errorHandler"
    /\ invoked' = Append(invoked, Call("errorHandler", "err", NoError))
    /\ headers' = Append(headers, IF errorHandler = "InputGetErrorHandle"
                                  THEN InputGetErrorHandle(herr)
                                  ELSE AlwaysInternalErrorHandle(herr))
    /\ hpc' = "returned"
    /\ UNCHANGED <<wrapKind, input, response, herr, errorHandler, parseVars, outsideWrap>>

NextWrap == CallInputGetter \/ CallHandler \/ CallResponseMarshaler \/ CallErrorHandler

InitWrap ==
    /\ NoParse
    /\ NoServer
    /\ NoCheck
    /\ NoWriter
    /\ wrapKind \in WrapKinds
    /\ hpc = IF TakesInput(wrapKind) THEN "inputGetter" ELSE "handler"
    /\ input = ""
    /\ response = ""
    /\ herr = <<>>
    /\ invoked = <<>>
    /\ errorHandler \in ErrorHandlers
    /\ headers = <<>>

SpecWrap == InitWrap /\ [][NextWrap]_vars

----------------------------------------------------------------------------
(* C20 *)

Steps == <<"inputGetter", "handler", "responseMarshaler">>

\* The calls of the three steps, without those of errorHandler.
StepCalls == SelectSeq(invoked, LAMBDA c : c.fn # "errorHandler")

ErrorHandlerCalls == SelectSeq(invoked, LAMBDA c : c.fn = "errorHandler")

SomeStepFailed == \E i \in 1..Len(invoked) : invoked[i].ret # NoError

\* The steps a handler of kind k has: all three, or not the first.
StepsOf(k) == IF TakesInput(k) THEN Steps ELSE Tail(Steps)

\* C20: a handler built by one of the four Wrap functions calls its steps
\* in the order inputGetter, inner handler, responseMarshaler, each at most
\* once and only after every earlier step returned nil; errorHandler is
\* called only after a step that returned an error, as the last call, and
\* by the time the handler returns it was called once if a step failed and
\* never if none did.  The handlers of WrapHandlerResponse and
\* WrapHandlerError do not call inputGetter; those of WrapHandlerInput and
\* WrapHandlerError give http.NoBody to responseMarshaler, the other two
\* the response of the inner handler.
C20_StepOrder ==
    wrapKind # "none" =>
        /\ Len(StepCalls) <= Len(StepsOf(wrapKind))
        /\ \A i \in 1..Len(StepCalls) :
              /\ StepCalls[i].fn = StepsOf(wrapKind)[i]
              /\ i < Len(StepCalls) => StepCalls[i].ret = NoError
        /\ Len(ErrorHandlerCalls) <= 1
        /\ \A i \in 1..Len(invoked) :
              invoked[i].fn = "errorHandler" =>
                  /\ i = Len(invoked)
                  /\ i > 1
                  /\ invoked[i - 1].ret # NoError
        /\ hpc = "returned" =>
              /\ Len(ErrorHandlerCalls) = IF SomeStepFailed THEN 1 ELSE 0
              /\ ~SomeStepFailed => StepCalls = invoked /\ Len(invoked) = Len(StepsOf(wrapKind))
        /\ ~TakesInput(wrapKind) =>
              \A i \in 1..Len(invoked) : invoked[i].fn # "inputGetter"
        /\ \A i \in 1..Len(invoked) :
              invoked[i].fn = "responseMarshaler" =>
                  invoked[i].arg = IF wrapKind \in {"WrapHandlerInput", "WrapHandlerError"}
                                   THEN NoBody
                                   ELSE response

\* A handler built by WrapHandlerInput has returned: inputGetter and the
\* inner handler returned nil, responseMarshaler was given http.NoBody and
\* returned an error, and errorHandler was called.
C20_Witness ==
    /\ wrapKind = "WrapHandlerInput"
    /\ hpc = "returned"
    /\ Len(invoked) = 4
    /\ invoked[1].fn = "inputGetter"
    /\ invoked[2].fn = "handler"
    /\ invoked[3] = Call("responseMarshaler", NoBody, E("io.EOF", <<>>, ""))
    /\ invoked[4].fn = "errorHandler"

----------------------------------------------------------------------------
(* C21 *)

Sentinels == {ErrInputGet, ErrInnerHandler, ErrResponseMarshal}

SentinelOf(fn) ==
    CASE fn = "inputGetter" -> ErrInputGet
      [] fn = "handler" -> ErrInnerHandler
      [] fn = "responseMarshaler" -> ErrResponseMarshal

\* The call of the step that returned an error.
FailedCall == invoked[CHOOSE i \in 1..Len(invoked) : invoked[i].ret # NoError]

\* errorHandler has been called, with herr.
Handled == wrapKind # "none" /\ hpc = "returned" /\ SomeStepFailed

\* What InputGetErrorHandle is said to write for error e.
StatusFor(e) == IF ErrorIs(e, ErrInputGet) THEN StatusBadRequest
                ELSE StatusInternalServerError

\* C21 as stated: the error handed to errorHandler matches the underlying
\* error of the failed step and, of the three errors of the package, the
\* one of the failed step and no other; with InputGetErrorHandle the
\* status of the response is 400 when the error matches ErrInputGet and 500
\* when it does not.
C21_Original ==
    Handled =>
        /\ \A s \in Sentinels : ErrorIs(herr, s) <=> s = SentinelOf(FailedCall.fn)
        /\ ErrorIs(herr, FailedCall.ret[1].msg)
        /\ errorHandler = "InputGetErrorHandle" => ResponseStatus = StatusFor(herr)

\* C21 amended: the error handed to errorHandler matches the error of the
\* failed step and the underlying error; it matches another of the three
\* errors exactly when the underlying error does.  InputGetErrorHandle
\* calls WriteHeader with 400 when the error matches ErrInputGet and with
\* 500 when it does not, and that is the status of the response when no
\* header was written before; when responseMarshaler wrote the header
\* before it failed, the response keeps the status of the marshaler.
C21_ErrorIdentifiesStep ==
    Handled =>
        /\ ErrorIs(herr, SentinelOf(FailedCall.fn))
        /\ ErrorIs(herr, FailedCall.ret[1].msg)
        /\ \A s \in Sentinels \ {SentinelOf(FailedCall.fn)} :
              ErrorIs(herr, s) <=> ErrorIs(FailedCall.ret, s)
        /\ errorHandler = "InputGetErrorHandle" =>
              /\ headers[Len(headers)] = StatusFor(herr)
              /\ Len(headers) = 1 => ResponseStatus = StatusFor(herr)
              /\ Len(headers) > 1 =>
                    /\ FailedCall.fn = "responseMarshaler"
                    /\ ResponseStatus = DefaultStatus(FailedCall.arg)

\* The input could not be read: InputGetErrorHandle was handed an error
\* that matches ErrInputGet and io.EOF and no other error of the package,
\* and the response has status 400.
C21_Witness ==
    /\ Handled
    /\ wrapKind = "WrapHandler"
    /\ errorHandler = "InputGetErrorHandle"
    /\ FailedCall.fn = "inputGetter"
    /\ ErrorIs(herr, ErrInputGet)
    /\ ErrorIs(herr, "io.EOF")
    /\ ~ErrorIs(herr, ErrInnerHandler)
    /\ ~ErrorIs(herr, ErrResponseMarshal)
    /\ ResponseStatus = StatusBadRequest

----------------------------------------------------------------------------
(* http: Server.Run and the hooks of ServerConfig.Hooks.BeforeShutdown *)

\* The most hooks a configuration has.
MaxHooks == 2

outsideServer == <<parseVars, wrapVars, checkVars, writerVars>>

ErrShutdownTimeout == "server shutdown timeout"

\* The cases of the first select of Run: ListenAndServe returned an error,
\* the context was cancelled, SIGINT or SIGTERM was received.
StopCauses == {"listener error", "context closed", "signal received"}

\* Shutdown timeouts in seconds: negative, zero, positive.
Timeouts == {-1, 0, 30}

\* select { case err := <-errCh: ... case <-ctx.Done(): ... case sig := <-s.signalsListener: ... }
Stop ==
    /\ spc = "serving"
    /\ \E c \in StopCauses : stopCause' = c
    /\ spc' = "shutdown"
    /\ UNCHANGED <<shutdownTimeout, doBeforeShutdown, bpc, waitForShutdown, timer,
                   runResult, outsideServer>>

\* s.server.Shutdown(context.Background()): it starts every function
\* registered with RegisterOnShutdown, which is s.beforeShutdown, in a
\* goroutine of its own and waits for none of them; it returns the error of
\* closing the listeners.  With an error Run returns it; without, Run goes
\* to its second select, whose time.After has fired at once when the
\* timeout is not positive.
Shutdown ==
    /\ spc = "shutdown"
    /\ bpc' = "spawned"
    /\ \E failed \in BOOLEAN :
          IF failed
          THEN /\ spc' = "returned"
               /\ runResult' = "shutdown error"
               /\ timer' = timer
          ELSE /\ spc' = "waiting"
               /\ runResult' = runResult
               /\ timer' = IF shutdownTimeout <= 0 THEN "fired" ELSE "running"
    /\ UNCHANGED <<stopCause, shutdownTimeout, doBeforeShutdown, waitForShutdown,
                   outsideServer>>

\* len(s.doBeforeShutdown) == 0 || (s.shutdownTimeout != nil && *s.shutdownTimeout <= 0)
noHooksToRun(hooks, timeout) == Len(hooks) = 0 \/ timeout <= 0

\* beforeShutdown up to wg.Wait(): with no hook, or a timeout that is not
\* positive, it sends on waitForShutdown and returns; otherwise it starts a
\* goroutine for each hook.
BeforeShutdown ==
    /\ bpc = "spawned"
    /\ IF noHooksToRun(doBeforeShutdown, shutdownTimeout)
       THEN /\ waitForShutdown' = waitForShutdown + 1
            /\ bpc' = "done"
            /\ doBeforeShutdown' = doBeforeShutdown
       ELSE /\ doBeforeShutdown' = [i \in 1..Len(doBeforeShutdown) |-> "spawned"]
            /\ bpc' = "waiting"
            /\ waitForShutdown' = waitForShutdown
    /\ UNCHANGED <<spc, stopCause, shutdownTimeout, timer, runResult, outsideServer>>

\* f(ctx) is called in the goroutine of hook i.
HookCall ==
    /\ \E i \in 1..Len(doBeforeShutdown) :
          /\ doBeforeShutdown[i] = "spawned"
          /\ doBeforeShutdown' = [doBeforeShutdown EXCEPT ![i] = "running"]
    /\ UNCHANGED <<spc, stopCause, shutdownTimeout, bpc, waitForShutdown, timer,
                   runResult, outsideServer>>

\* f(ctx) returns; wg.Done()
HookReturn ==
    /\ \E i \in 1..Len(doBeforeShutdown) :
          /\ doBeforeShutdown[i] = "running"
          /\ doBeforeShutdown' = [doBeforeShutdown EXCEPT ![i] = "returned"]
    /\ UNCHANGED <<spc, stopCause, shutdownTimeout, bpc, waitForShutdown, timer,
                   runResult, outsideServer>>

\* Mutant: wg.Wait() returns at once.
waitedNot(hooks) == TRUE

\* wg.Wait() returns when every hook has called wg.Done().
waited(hooks) == \A i \in 1..Len(hooks) : hooks[i] = "returned"

\* wg.Wait(); s.waitForShutdown <- struct{}{}
HooksDone ==
    /\ bpc = "waiting"
    /\ waited(doBeforeShutdown)
    /\ waitForShutdown' = waitForShutdown + 1
    /\ bpc' = "done"
    /\ UNCHANGED <<spc, stopCause, shutdownTimeout, doBeforeShutdown, timer, runResult,
                   outsideServer>>

\* The shutdown timeout elapses.
Tick ==
    /\ timer = "running"
    /\ timer' = "fired"
    /\ UNCHANGED <<spc, stopCause, shutdownTimeout, doBeforeShutdown, bpc,
                   waitForShutdown, runResult, outsideServer>>

\* case <-s.waitForShutdown: return nil
ReturnNil ==
    /\ spc = "waiting"
    /\ waitForShutdown > 0
    /\ waitForShutdown' = waitForShutdown - 1
    /\ spc' = "returned"
    /\ runResult' = "nil"
    /\ UNCHANGED <<stopCause, shutdownTimeout, doBeforeShutdown, bpc, timer,
                   outsideServer>>

\* case <-time.After(...): return errors.ErrShutdownTimeout
ReturnTimeout ==
    /\ spc = "waiting"
    /\ timer = "fired"
    /\ spc' = "returned"
    /\ runResult' = ErrShutdownTimeout
    /\ UNCHANGED <<stopCause, shutdownTimeout, doBeforeShutdown, bpc, waitForShutdown,
                   timer, outsideServer>>

NextServer ==
    \/ Stop \/ Shutdown \/ BeforeShutdown \/ HookCall \/ HookReturn \/ HooksDone
    \/ Tick \/ ReturnNil \/ ReturnTimeout

\* NewServer with a configuration, and Run up to its first select.
InitServer ==
    /\ NoParse
    /\ NoWrappedHandler
    /\ NoCheck
    /\ NoWriter
    /\ spc = "serving"
    /\ stopCause = "none"
    /\ shutdownTimeout \in Timeouts
    /\ \E n \in 0..MaxHooks : doBeforeShutdown = [i \in 1..n |-> "configured"]
    /\ bpc = "none"
    /\ waitForShutdown = 0
    /\ timer = "off"
    /\ runResult = "none"

SpecServer == InitServer /\ [][NextServer]_vars

----------------------------------------------------------------------------
(* C22 *)

Called(h) == h \in {"running", "returned"}

AllCalled == \A i \in 1..Len(doBeforeShutdown) : Called(doBeforeShutdown[i])

AllReturned == \A i \in 1..Len(doBeforeShutdown) : doBeforeShutdown[i] = "returned"

RunReturned == spc = "returned"

\* C22 as stated: when Run has returned, for every cause of the stop and
\* every shutdown timeout, every configured hook has been called; if Run
\* returned nil, every hook has returned, and if it returned
\* ErrShutdownTimeout, some hook has not.
C22_Original ==
    RunReturned =>
        /\ AllCalled
        /\ runResult = "nil" => AllReturned
        /\ runResult = ErrShutdownTimeout => ~AllReturned

\* C22 amended: with a positive shutdown timeout, Run returns nil only
\* after every configured hook was called and has returned.  With a
\* timeout that is not positive no hook is ever called, and Run returns
\* nil or ErrShutdownTimeout.  Run returns ErrShutdownTimeout only when the
\* timeout has elapsed after Shutdown and it has not received from
\* waitForShutdown; the hooks may then be not yet called, running or
\* returned.  No hook is called before Shutdown was called, and none when
\* Run has not left its first select.
C22_HooksBeforeShutdown ==
    spc # "none" =>
        /\ (RunReturned /\ runResult = "nil" /\ shutdownTimeout > 0) =>
              (AllCalled /\ AllReturned)
        /\ shutdownTimeout <= 0 =>
              \A i \in 1..Len(doBeforeShutdown) : doBeforeShutdown[i] = "configured"
        /\ (RunReturned /\ runResult = ErrShutdownTimeout) => timer = "fired"
        /\ (RunReturned /\ runResult = "nil") => bpc = "done"
        /\ spc \in {"serving", "shutdown"} =>
              \A i \in 1..Len(doBeforeShutdown) : doBeforeShutdown[i] = "configured"
        /\ RunReturned => stopCause \in StopCauses

\* The server was stopped by a signal, with a timeout of 30 seconds and two
\* hooks: both have returned, and Run has returned nil.
C22_Witness ==
    /\ RunReturned
    /\ runResult = "nil"
    /\ stopCause = "signal received"
    /\ shutdownTimeout = 30
    /\ Len(doBeforeShutdown) = 2
    /\ AllReturned

----------------------------------------------------------------------------
(* graphql/extension: RecursionLimitByTypeAndField *)

\* The greatest limit an extension is made with.
MaxLimit == 2

\* How deep below the root field the generated operations nest.
NestingDepth == 2

outsideCheck == <<parseVars, wrapVars, serverVars, writerVars>>

\* A field of a selection set (*ast.Field): its name, its alias ("" when
\* it has none) and its own selection set (<<>> is nil, a leaf).
Selected(name, alias, sel) == [name |-> name, alias |-> alias, sel |-> sel]

\* collectedField.Definition.Type.Name() in the schema of the README: the
\* root field user and User.friends both return User.
TypeNameOf(name) ==
    CASE name = "user" -> "User"
      [] name = "friends" -> "User"
      [] OTHER -> "ID"

\* graphql.CollectFields(opCtx, selectionSet, nil) of gqlgen: the fields
\* of the set are grouped by name and alias.  The CollectedField of a group
\* embeds the first *ast.Field of the group, whose SelectionSet is that of
\* this one field, and has in Selections the selection sets of all the
\* fields of the group, one after the other.
RECURSIVE collectFields(_, _, _)
groupOf(acc, f) ==
    {j \in 1..Len(acc) : acc[j].Name = f.name /\ acc[j].Alias = f.alias}

collectFields(acc, selSet, i) ==
    IF i > Len(selSet) THEN acc
    ELSE IF groupOf(acc, selSet[i]) # {}
    THEN collectFields([acc EXCEPT ![CHOOSE j \in groupOf(acc, selSet[i]) : TRUE].Selections
                                       = @ \o selSet[i].sel],
                       selSet, i + 1)
    ELSE collectFields(Append(acc, [Name |-> selSet[i].name, Alias |-> selSet[i].alias,
                                    SelectionSet |-> selSet[i].sel,
                                    Selections |-> selSet[i].sel]),
                       selSet, i + 1)

CollectFields(selSet) == collectFields(<<>>, selSet, 1)

\* rCtx.typeAndFieldCount: a map from nestingByTypeAndField to int; a key
\* that is not in it reads as 0.
nestingByTypeAndField(typeName, fieldName) == <<typeName, fieldName>>

CountOf(counts, nesting) == IF nesting \in DOMAIN counts THEN counts[nesting] ELSE 0

Counted(counts, nesting, n) ==
    [k \in DOMAIN counts \cup {nesting} |-> IF k = nesting THEN n ELSE counts[k]]

NoGqlError == [msg |-> "nil", typ |-> "", field |-> ""]
Pending == [msg |-> "pending", typ |-> "", field |-> ""]

\* gqlerror.Errorf("too many nesting on %s.%s", ...)
TooManyNesting(nesting) ==
    [msg |-> "too many nesting on", typ |-> nesting[1], field |-> nesting[2]]

Checked(e, counts) == [err |-> e, counts |-> counts]

\* Mutant: the selection sets of all the fields of the group are checked.
subSelectionMerged(collectedField) == collectedField.Selections

\* collectedField.SelectionSet, the argument of the recursive call
subSelection(collectedField) == collectedField.SelectionSet

\* newCount > rCtx.maxRecursion
exceeds(newCount, limit) == newCount > limit

RECURSIVE checkRecursionLimitByTypeAndField(_, _, _, _)
RECURSIVE checkCollected(_, _, _, _, _)

\* The body of the loop after the recursive call returned r:
\* if err != nil { return err }; rCtx.typeAndFieldCount[nesting]--
afterSubtree(r, limit, typeName, collected, i) ==
    IF r.err # NoGqlError THEN r
    ELSE checkCollected(Counted(r.counts,
                                nestingByTypeAndField(typeName, collected[i].Name),
                                CountOf(r.counts,
                                        nestingByTypeAndField(typeName, collected[i].Name)) - 1),
                        limit, typeName, collected, i + 1)

\* for _, collectedField := range collected { ... }
checkCollected(counts, limit, typeName, collected, i) ==
    IF i > Len(collected) THEN Checked(NoGqlError, counts)
    ELSE IF exceeds(CountOf(counts, nestingByTypeAndField(typeName, collected[i].Name)) + 1,
                    limit)
    THEN Checked(TooManyNesting(nestingByTypeAndField(typeName, collected[i].Name)), counts)
    ELSE afterSubtree(
             checkRecursionLimitByTypeAndField(
                 Counted(counts, nestingByTypeAndField(typeName, collected[i].Name),
                         CountOf(counts,
                                 nestingByTypeAndField(typeName, collected[i].Name)) + 1),
                 limit, TypeNameOf(collected[i].Name), subSelection(collected[i])),
             limit, typeName, collected, i)

checkRecursionLimitByTypeAndField(counts, limit, typeName, selectionSet) ==
    IF selectionSet = <<>> THEN Checked(NoGqlError, counts)
    ELSE checkCollected(counts, limit, typeName, CollectFields(selectionSet), 1)

\* (*RecursionLimit).MutateOperationContext: the check starts with an empty
\* map, under the name of the kind of the operation.
MutateOperationContext ==
    /\ gqlErr = Pending
    /\ gqlErr' = checkRecursionLimitByTypeAndField(<<>>, maxRecursion, "query",
                                                   operation).err
    /\ UNCHANGED <<operation, maxRecursion, outsideCheck>>

NextCheck == MutateOperationContext

\* The selection sets of a User that nest at most d deep: one field, id
\* or friends, or such a field and a second friends field, which may stand
\* under the alias other.
RECURSIVE UserSelections(_)
FriendsFields(d, aliases) ==
    IF d = 0 THEN {}
    ELSE {Selected("friends", a, sub) : a \in aliases, sub \in UserSelections(d - 1)}

UserFields(d) == {Selected("id", "", <<>>)} \cup FriendsFields(d, {""})

UserSelections(d) ==
    {<<f>> : f \in UserFields(d)}
        \cup {<<f, g>> : f \in UserFields(d), g \in FriendsFields(d, {"", "other"})}

\* query { user { ... } }
Operations == {<<Selected("user", "", sub)>> : sub \in UserSelections(NestingDepth)}

InitCheck ==
    /\ NoParse
    /\ NoWrappedHandler
    /\ NoServer
    /\ NoWriter
    /\ operation \in Operations
    /\ maxRecursion \in 0..MaxLimit
    /\ gqlErr = Pending

SpecCheck == InitCheck /\ [][NextCheck]_vars

----------------------------------------------------------------------------
(* C23 *)

\* Some nesting path of the selection set, continued from a path with the
\* given counts, has a pair of parent type and field more than limit times.
RECURSIVE PathExceeds(_, _, _, _)
PathExceeds(selSet, typeName, counts, limit) ==
    \E i \in 1..Len(selSet) :
        \/ CountOf(counts, <<typeName, selSet[i].name>>) + 1 > limit
        \/ PathExceeds(selSet[i].sel, TypeNameOf(selSet[i].name),
                       Counted(counts, <<typeName, selSet[i].name>>,
                               CountOf(counts, <<typeName, selSet[i].name>>) + 1),
                       limit)

Rejected23 == gqlErr.msg = "too many nesting on"

\* C23: the operation is rejected with "too many nesting on Type.field"
\* if and only if some root-to-leaf nesting path of its selection set has
\* the same pair of parent type and field more than limit times.
C23_RejectsIffPathExceeds ==
    gqlErr # Pending /\ operation # <<>> =>
        (Rejected23 <=> PathExceeds(operation, "query", <<>>, maxRecursion))

----------------------------------------------------------------------------
(* http: ResponseWriter.WriteHeader and ResponseWriter.TryWriteHeader *)

\* The greatest number of calls made on the one ResponseWriter.
MaxCallers == 3

outsideWriter == <<parseVars, wrapVars, serverVars, checkVars>>

\* The status codes the callers pass.
StatusCodes == {StatusBadRequest, StatusInternalServerError}

\* The frame of a call: the method called, its argument, where it is, and
\* what TryWriteHeader returned to it or in it ("none" until it has).
Caller(method, statusCode_, at, ok) ==
    [method |-> method, code |-> statusCode_, pc |-> at, try |-> ok]

\* A goroutine calls w.WriteHeader(code) or w.TryWriteHeader(code).
CallWriter ==
    /\ callers # <<>> \/ (calledWriteHeader = 0 /\ statusCode = StatusOK)
    /\ Len(callers) < MaxCallers
    /\ \E method \in {"WriteHeader", "TryWriteHeader"}, code \in StatusCodes :
           callers' = Append(callers, Caller(method, code, "cas", "none"))
    /\ UNCHANGED <<calledWriteHeader, statusCode, wrappedCalls, warned, outsideWriter>>

\* Mutant: the swap is made whatever the flag holds.
swappedAlways(old) == TRUE

\* atomic.CompareAndSwapInt32(&r.calledWriteHeader, 0, 1) swaps, and
\* returns true, only when the flag holds 0.
swapped(old) == old = 0

\* Where a call that lost the swap goes on: TryWriteHeader returns false,
\* WriteHeader logs the warning.
lost(c) == [c EXCEPT !.try = "false",
                     !.pc = IF c.method = "WriteHeader" THEN "log" ELSE "returned"]

CompareAndSwap(i) ==
    /\ callers[i].pc = "cas"
    /\ IF swapped(calledWriteHeader)
       THEN /\ calledWriteHeader' = 1
            /\ callers' = [callers EXCEPT ![i].pc = "write"]
       ELSE /\ calledWriteHeader' = calledWriteHeader
            /\ callers' = [callers EXCEPT ![i] = lost(callers[i])]
    /\ UNCHANGED <<statusCode, wrappedCalls, warned, outsideWriter>>

\* r.ResponseWriter.WriteHeader(statusCode)
WrappedWriteHeader(i) ==
    /\ callers[i].pc = "write"
    /\ wrappedCalls' = Append(wrappedCalls, callers[i].code)
    /\ callers' = [callers EXCEPT ![i].pc = "store"]
    /\ UNCHANGED <<calledWriteHeader, statusCode, warned, outsideWriter>>

\* r.statusCode = statusCode; return true
StoreStatusCode(i) ==
    /\ callers[i].pc = "store"
    /\ statusCode' = callers[i].code
    /\ callers' = [callers EXCEPT ![i].pc = "returned", ![i].try = "true"]
    /\ UNCHANGED <<calledWriteHeader, wrappedCalls, warned, outsideWriter>>

\* WriteHeader after TryWriteHeader returned false: the warning is logged
\* with r.statusCode, which is read with no synchronisation with the store
\* of the call that won: the read gives the value of the constructor or
\* the stored one.
Warn(i) ==
    /\ callers[i].pc = "log"
    /\ \E current \in {StatusOK, statusCode} :
           warned' = Append(warned, [current_status_code |-> current,
                                     ignored_status_code |-> callers[i].code])
    /\ callers' = [callers EXCEPT ![i].pc = "returned"]
    /\ UNCHANGED <<calledWriteHeader, statusCode, wrappedCalls, outsideWriter>>

NextWriter ==
    \/ CallWriter
    \/ \E i \in 1..Len(callers) : CompareAndSwap(i)
    \/ \E i \in 1..Len(callers) : WrappedWriteHeader(i)
    \/ \E i \in 1..Len(callers) : StoreStatusCode(i)
    \/ \E i \in 1..Len(callers) : Warn(i)

\* NewResponseWriter: statusCode is http.StatusOK, calledWriteHeader is 0.
InitWriter ==
    /\ NoParse
    /\ NoWrappedHandler
    /\ NoServer
    /\ NoCheck
    /\ calledWriteHeader = 0
    /\ statusCode = StatusOK
    /\ wrappedCalls = <<>>
    /\ callers = <<>>
    /\ warned = <<>>

SpecWriter == InitWriter /\ [][NextWriter]_vars

----------------------------------------------------------------------------
(* C30 *)

\* The calls whose swap succeeded.
Won == {i \in 1..Len(callers) : callers[i].pc \in {"write", "store"} \/ callers[i].try = "true"}

\* The calls in which TryWriteHeader has returned true.
ReturnedTrue == {i \in 1..Len(callers) : callers[i].try = "true"}

AllWriterCallsReturned == \A i \in 1..Len(callers) : callers[i].pc = "returned"

\* C30: whatever the number and the interleaving of the WriteHeader and
\* TryWriteHeader calls, the wrapped writer's WriteHeader is called at most
\* once, by the call that won and with its status code; TryWriteHeader
\* returns true in at most one call, and in exactly one once all have
\* returned, false in all the others; StatusCode() is 200 before any call
\* and, once all calls have returned, the code given to the wrapped writer.
C30_WrittenOnce ==
    /\ Len(wrappedCalls) <= 1
    /\ Cardinality(Won) <= 1
    /\ wrappedCalls # <<>> => \E i \in Won : /\ wrappedCalls[1] = callers[i].code
                                             /\ callers[i].pc # "write"
    /\ ReturnedTrue \subseteq Won
    /\ \A i \in 1..Len(callers) :
           callers[i].pc = "returned" /\ i \notin Won => callers[i].try = "false"
    /\ calledWriteHeader = 0 => statusCode = StatusOK /\ wrappedCalls = <<>>
    /\ callers # <<>> /\ AllWriterCallsReturned =>
           /\ Cardinality(ReturnedTrue) = 1
           /\ Len(wrappedCalls) = 1
           /\ statusCode = wrappedCalls[1]

\* Three calls have returned: the one that won, and a WriteHeader and a
\* TryWriteHeader with another status code that lost.
C30_Witness ==
    /\ AllWriterCallsReturned
    /\ Len(warned) >= 1
    /\ \E i \in Won : \E j, k \in 1..Len(callers) :
           /\ callers[j].code # callers[i].code
           /\ callers[j].method = "WriteHeader" /\ callers[j].try = "false"
           /\ callers[k].method = "TryWriteHeader" /\ callers[k].try = "false"

----------------------------------------------------------------------------
(* C24 *)

\* The source kinds a tag names under key: those whose modifier stands
\* before the one '=' of the value of some pair under the key.
NamedKinds(tg, key) ==
    {kind \in SourceKinds :
        \E i \in 1..Len(tg) :
            /\ tg[i].key = key
            /\ resolveTagValueWithModifier(tg[i].value, ModifierOf(kind)).ok}

EntriesOf(ip) == {k \in 1..Len(paths) : paths[k].indexPath = ip}

\* The text the source of an entry gives for its parameter.
SourceText(entry) ==
    CASE entry.paramType = "query" -> ValuesOf(req.query, entry.paramName)[1]
      [] entry.paramType = "path" -> FirstOf(req.path, entry.paramName)
      [] entry.paramType = "form" -> FirstOf(req.form, entry.paramName)

Lookups == {i \in 1..Len(log) : log[i].op \in {"PathParamFunc", "FormParamFunc", "Query"}}

\* C24 as stated: a field is registered once for each source kind its tag
\* names.
C24_Original ==
    pc # "start" =>
        \A i \in 1..Len(Root.fields) :
            \A kind \in NamedKinds(Root.fields[i].tag, parser.tagName) :
                \E k \in EntriesOf(<<i>>) : paths[k].paramType = kind

\* C24: a field is registered for at most one source kind, the one whose
\* modifier stands before the one '=' of the first value under the
\* configured key, so a field path has at most one discovered entry; only
\* the source of that kind is asked for the field, and its value is the
\* field's value after a Parse that returned nil.
C24_OneKindPerField ==
    /\ pc # "start" =>
          \A i \in 1..Len(Root.fields) :
              /\ Cardinality(EntriesOf(<<i>>)) <= 1
              /\ \A k \in EntriesOf(<<i>>) :
                     resolveTagWithModifier(parser, Root.fields[i].tag,
                                            ModifierOf(paths[k].paramType))
                        = [name |-> paths[k].paramName, ok |-> TRUE]
    /\ (pc = "done" /\ err = NoError) =>
          \A k \in 1..Len(paths) :
              /\ \A j \in Lookups : log[j].op = LookupOp(paths[k].paramType)
              /\ Supplied(paths[k]) =>
                     FieldVal(heap, paths[k].indexPath) = StrV(SourceText(paths[k]))

\* Parse has bound from the query a field whose tag names the query and,
\* in a second pair under the same key, the path: the path was not asked.
C24_Witness ==
    /\ pc = "done"
    /\ err = NoError
    /\ NamedKinds(Root.fields[1].tag, parser.tagName) = {"query", "path"}
    /\ Len(paths) = 1
    /\ paths[1].paramType = "query"
    /\ Lookups # {}
    /\ FieldVal(heap, <<1>>) = StrV(<<"y">>)

----------------------------------------------------------------------------
(* C25 *)

\* The second loop has made its pass for entry k.
Processed(k) ==
    \/ pc = "binding" /\ idx > k
    \/ pc = "done" /\ err = NoError
    \/ pc = "done" /\ err # NoError /\ idx >= k /\ Lookups # {}

\* The pass of the second loop for entry k returned the error of Parse.
FailedAt(k) == pc = "done" /\ err # NoError /\ idx = k /\ Lookups # {}

\* UnmarshalText was called right after the source was asked for entry k.
UnmarshaledAfterLookup(k) ==
    \E j \in 1..(Len(log) - 1) :
        /\ log[j] = Ev(LookupOp(paths[k].paramType), paths[k].paramName)
        /\ log[j + 1].op = "UnmarshalText"

\* C25: when the lookup of a path- or form-tagged field returns the empty
\* string, nothing is unmarshaled into the field: the pass returns no
\* error and the field holds its zero value, whatever its type.
C25_EmptyLookupIsNoValue ==
    \A k \in 1..Len(paths) :
        (/\ paths[k].paramType \in {"path", "form"}
         /\ Processed(k)
         /\ SourceText(paths[k]) = <<>>) =>
            /\ ~FailedAt(k)
            /\ ~UnmarshaledAfterLookup(k)
            /\ Reachable(heap, paths[k].indexPath)
            /\ FieldVal(heap, paths[k].indexPath) = Zero(TypeAt(Root, paths[k].indexPath))

\* Parse has returned nil for a form-tagged field of a type for which the
\* empty text does not parse, or that is not supported, the form holding
\* the parameter with an empty first value; the field held a value before.
C25_Witness ==
    /\ pc = "done"
    /\ err = NoError
    /\ Prefilled
    /\ paths[1].paramType = "form"
    /\ TypeAt(Root, paths[1].indexPath) \in {Prim("int8"), Prim("bool"), MapType}
    /\ Len(ValuesOf(req.form, paths[1].paramName)) = 2
    /\ ValuesOf(req.form, paths[1].paramName)[1] = <<>>
    /\ FieldVal(heap, paths[1].indexPath) = Zero(TypeAt(Root, paths[1].indexPath))

----------------------------------------------------------------------------
(* C26 *)

ParsedKinds == {"bool"} \cup SignedKinds \cup UnsignedKinds

\* What the claim says of a query parameter with the one value "".
EmptyValueCoerced(k, t) ==
    CASE t = String ->
           /\ ~FailedAt(k)
           /\ FieldVal(heap, paths[k].indexPath) = StrV(<<>>)
      [] t = PtrTo(String) ->
           /\ ~FailedAt(k)
           /\ FieldVal(heap, paths[k].indexPath).p # 0
           /\ heap[FieldVal(heap, paths[k].indexPath).p] = StrV(<<>>)
      [] t.kind \in ParsedKinds /\ ~t.tu ->
           /\ FailedAt(k)
           /\ ErrorIs(err, ErrSyntax)
           /\ FieldVal(heap, paths[k].indexPath) = Zero(t)
      [] OTHER -> TRUE

\* C26: a query-tagged field is unmarshaled exactly when the query holds a
\* value under its name.  With no value the pass returns no error and the
\* field holds its zero value, whatever its type.  A value that is empty is
\* a value: a string field becomes "", a *string field a pointer to "", an
\* integer or bool field makes Parse fail with a syntax error; a field of
\* an unsupported kind makes Parse fail when there is a value, and a field
\* that implements TextUnmarshaler is handed the one value.
C26_QueryPresence ==
    \A k \in 1..Len(paths) :
        (paths[k].paramType = "query" /\ Processed(k)) =>
            /\ ValuesFor(paths[k]) = <<>> =>
                   /\ ~FailedAt(k)
                   /\ ~UnmarshaledAfterLookup(k)
                   /\ (/\ Reachable(heap, paths[k].indexPath)
                       /\ IsLeafType(TypeAt(Root, paths[k].indexPath))) =>
                          FieldVal(heap, paths[k].indexPath)
                             = Zero(TypeAt(Root, paths[k].indexPath))
            /\ (ValuesFor(paths[k]) = <<<<>>>> /\ Reachable(heap, paths[k].indexPath)) =>
                   EmptyValueCoerced(k, TypeAt(Root, paths[k].indexPath))
            /\ (ValuesFor(paths[k]) # <<>> /\ TypeAt(Root, paths[k].indexPath) = MapType) =>
                   /\ FailedAt(k)
                   /\ Len(ValuesFor(paths[k])) = 1 => ErrorIs(err, "unsupported field type")
            /\ (Len(ValuesFor(paths[k])) = 1
                   /\ implementsTextUnmarshaler(TypeAt(Root, paths[k].indexPath))) =>
                   UnmarshaledAfterLookup(k)

\* Parse has returned nil with a *string field that points to "", taken
\* from the one empty value of the query.
C26_Witness ==
    /\ pc = "done"
    /\ err = NoError
    /\ paths[1].paramType = "query"
    /\ TypeAt(Root, paths[1].indexPath) = PtrTo(String)
    /\ ValuesFor(paths[1]) = <<<<>>>>
    /\ FieldVal(heap, paths[1].indexPath).p # 0
    /\ heap[FieldVal(heap, paths[1].indexPath).p] = StrV(<<>>)

----------------------------------------------------------------------------
(* C27 *)

\* What strconv.ParseInt(text, 10, 8) makes of a text without sign: "" when
\* it is a number an int8 holds, else the kind of its error.
Int8Failure(text) ==
    IF text = <<>> \/ \E i \in 1..Len(text) : text[i] \notin DigitChars THEN ErrSyntax
    ELSE IF MagLess([i \in 1..Len(text) |-> DigitVal(text[i])], <<1, 2, 8>>) THEN ""
    ELSE ErrRange

FailingElems(vs) == {i \in 1..Len(vs) : Int8Failure(vs[i]) # ""}

FirstFailing(vs) == CHOOSE i \in FailingElems(vs) : \A j \in FailingElems(vs) : i <= j

IsInt8Slice(entry) ==
    IsQuerySlice(entry) /\ TypeAt(Root, entry.indexPath).elem[1] = Prim("int8")

\* C27: when a value of a query-tagged slice of int8 does not parse, Parse
\* returns the error of the first such value: it carries the index of the
\* value, counted from zero, and the kind (syntax or range) of the failure
\* of that value and of no later one; the field is left nil, whatever it held
\* before.  When all values parse the pass returns no error.
C27_SliceElementFailure ==
    \A k \in 1..Len(paths) :
        (IsInt8Slice(paths[k]) /\ Processed(k)) =>
            IF FailingElems(ValuesFor(paths[k])) = {}
            THEN ~FailedAt(k)
            ELSE /\ FailedAt(k)
                 /\ err[1] = [msg |-> "unmarshaling query parameter",
                              arg |-> paths[k].paramName, typ |-> ""]
                 /\ err[2] = [msg |-> "unmarshaling %dth element",
                              arg |-> <<DigitChar(FirstFailing(ValuesFor(paths[k])) - 1)>>,
                              typ |-> ""]
                 /\ \A kind \in {ErrSyntax, ErrRange} :
                        ErrorIs(err, kind) <=>
                           kind = Int8Failure(ValuesFor(paths[k])
                                                 [FirstFailing(ValuesFor(paths[k]))])
                 /\ FieldVal(heap, paths[k].indexPath) = Zero(SliceOf(Prim("int8")))

\* Parse has failed on the second of two values, which is out of range;
\* the slice held elements before and is nil.
C27_Witness ==
    /\ pc = "done"
    /\ Prefilled
    /\ IsInt8Slice(paths[1])
    /\ FailedAt(1)
    /\ Len(ValuesFor(paths[1])) = 2
    /\ FailingElems(ValuesFor(paths[1])) = {2}
    /\ ErrorIs(err, ErrRange)
    /\ FieldVal(heap0, paths[1].indexPath) # Zero(SliceOf(Prim("int8")))
    /\ FieldVal(heap, paths[1].indexPath) = Zero(SliceOf(Prim("int8")))

----------------------------------------------------------------------------
(* Parse called a second time with the same request and destination *)

\* The caller, after Parse has returned, calls it again: the locals of the
\* first call are kept aside, the destination is as the first call left it.
ParseAgain ==
    /\ pc = "done"
    /\ peer = NoCall
    /\ peer' = Locals(1, FALSE)
    /\ heap0' = heap
    /\ pc' = "start"
    /\ idx' = 0
    /\ paths' = <<>>
    /\ err' = NoError
    /\ log' = <<>>
    /\ UNCHANGED <<parser, req, destTyp, intSize, heap, valueReceiverResult, outsideParse>>

NextTwice == ParseStart \/ ZeroStep \/ BindStep \/ ParseReturn \/ ParseAgain

SpecTwice == Init /\ [][NextTwice]_vars

----------------------------------------------------------------------------
(* C28 *)

\* A value of type t as reflect.DeepEqual sees it: what a pointer points to
\* stands for the pointer.
RECURSIVE DeepVal(_, _, _)
DeepVal(h, t, v) ==
    IF t.kind = "ptr"
    THEN IF v.p = 0 THEN <<>> ELSE <<DeepVal(h, t.elem[1], h[v.p])>>
    ELSE IF t.kind = "struct"
    THEN [i \in 1..Len(t.fields) |-> DeepVal(h, t.fields[i].typ, v.e[i])]
    ELSE IF t.kind = "slice"
    THEN [nil |-> v.p = 0,
          elems |-> [i \in 1..Len(v.e) |-> DeepVal(h, t.elem[1], v.e[i])]]
    ELSE v

\* The destination struct in memory h.
Destination(h) == DeepVal(h, Root, h[1])

\* The discovered field at index path ip in memory h, if it can be reached.
TaggedValue(h, ip) ==
    IF Reachable(h, ip) THEN <<DeepVal(h, TypeAt(Root, ip), FieldVal(h, ip))>> ELSE <<>>

\* Parse with the same parser and request on a destination that holds
\* zero values only.
OnFresh == ParseAlone(parser, req, destTyp, InitialHeap(Root, FALSE), intSize)

SecondReturned == pc = "done" /\ peer # NoCall

\* C28: a second Parse with the same request on the destination as the
\* first left it returns what the first returned and leaves the destination
\* as it was after the first; and after a Parse that returned nil every
\* discovered field holds what it holds after a Parse that returned nil
\* into a destination of zero values, whatever the destination held before.
C28_Idempotent ==
    /\ SecondReturned =>
          /\ err = peer.err
          /\ Destination(heap) = Destination(peer.heap)
    /\ (pc = "done" /\ err = NoError /\ OnFresh.err = NoError) =>
          \A k \in 1..Len(paths) :
              TaggedValue(heap, paths[k].indexPath)
                 = TaggedValue(OnFresh.h, paths[k].indexPath)

\* The second Parse has returned nil as the first; the destination held
\* values before the first, and the *string field points to a new string
\* equal to the one of the first call.
C28_Witness ==
    /\ SecondReturned
    /\ err = NoError
    /\ peer.heap0 # <<Zero(Root)>>
    /\ TypeAt(Root, paths[1].indexPath) = PtrTo(String)
    /\ Supplied(paths[1])
    /\ FieldVal(heap, paths[1].indexPath).p # FieldVal(peer.heap, paths[1].indexPath).p
    /\ FieldVal(peer.heap, paths[1].indexPath).p # 0

----------------------------------------------------------------------------
(* Destinations that hold values in their fields and nil in their pointers *)

\* The struct in cell c of type t with its pointer fields set to nil.
withNilPointers(t, c) ==
    [c EXCEPT !.e = [i \in 1..Len(t.fields) |->
                        IF t.fields[i].typ.kind = "ptr" THEN V0 ELSE c.e[i]]]

InitHalf ==
    \E sc \in FailScenarios :
        /\ sc.prefilled
        /\ \E i \in 1..Len(sc.t.fields) : sc.t.fields[i].typ.kind = "ptr"
        /\ parser = sc.p
        /\ req = sc.r
        /\ destTyp = PtrTo(sc.t)
        /\ intSize = 64
        /\ heap = <<withNilPointers(sc.t, InitialHeap(sc.t, TRUE)[1])>>
        /\ heap0 = heap
        /\ pc = "start"
        /\ idx = 0
        /\ paths = <<>>
        /\ err = NoError
        /\ log = <<>>
        /\ valueReceiverResult = <<"o", "r", "i", "g">>
        /\ peer = NoCall
        /\ OnlyParse

SpecHalf == (InitFail \/ InitHalf) /\ [][Next]_vars

----------------------------------------------------------------------------
(* C29 *)

\* The field of entry k held a value other than zero before the call and
\* holds it still.
KeepsOld(k) ==
    /\ Reachable(heap, paths[k].indexPath)
    /\ Reachable(heap0, paths[k].indexPath)
    /\ FieldVal(heap0, paths[k].indexPath) # Zero(TypeAt(Root, paths[k].indexPath))
    /\ FieldVal(heap, paths[k].indexPath) = FieldVal(heap0, paths[k].indexPath)

HoldsZero(k) ==
    /\ Reachable(heap, paths[k].indexPath)
    /\ FieldVal(heap, paths[k].indexPath) = Zero(TypeAt(Root, paths[k].indexPath))

\* Parse has returned the error of zeroPath.
ZeroingFailed ==
    FailedInLoop /\ ErrorIs(err, "cannot set embedded pointer to unexported struct")

\* C29 as stated: after an error no discovered field holds what it held
\* before the call.
C29_Original ==
    FailedInLoop => \A k \in 1..Len(paths) : ~KeepsOld(k)

\* C29: after an error of the binding loop no discovered field holds what
\* it held before: the fields discovered after the failing one hold zero,
\* those before it zero or a value of the request.  After an error of the
\* zeroing loop the fields discovered before the failing one hold zero and
\* those discovered after it hold what they held before the call.
C29_ZeroedUnlessZeroingFailed ==
    FailedInLoop =>
        IF ZeroingFailed
        THEN \A k \in 1..Len(paths) :
                /\ k < idx => HoldsZero(k)
                /\ k = idx => ~Reachable(heap, paths[k].indexPath)
                /\ (k > idx /\ Reachable(heap0, paths[k].indexPath)) =>
                       /\ Reachable(heap, paths[k].indexPath)
                       /\ FieldVal(heap, paths[k].indexPath)
                             = FieldVal(heap0, paths[k].indexPath)
        ELSE \A k \in 1..Len(paths) :
                /\ ~KeepsOld(k)
                /\ k > idx => HoldsZero(k)
                /\ k <= idx => HoldsZero(k) \/ Supplied(paths[k])

\* Parse has returned the error of the zeroing loop; the field discovered
\* after the embedded pointer still holds the value it held before.
C29_Witness ==
    /\ ZeroingFailed
    /\ Root = unexportedPtrThenTagged
    /\ idx = 1
    /\ KeepsOld(2)
    /\ FieldVal(heap, paths[2].indexPath) = StrV(Old)

============================================================================
